---- MODULE Spec2Model ----
(***************************************************************************)
(* Model of the virtual processor of the assembly simulator               *)
(* (src/modules/processor.py, class CPU) as a state machine whose         *)
(* operations are web_next_instruction (one step) and input_finish.        *)
(* Bit strings are sequences over {0,1}, most significant bit first.      *)
(* A memory is the set of bit addresses that hold a 1.                    *)
(***************************************************************************)
EXTENDS Integers, Sequences, FiniteSets, TLC

VARIABLES isa, architecture, io_arch,
          registers, data_memory, program_memory,
          instruction, opcode, long_registers, long_register_result,
          long_immediates, long_immediate_result, additional_jump,
          instr_size_list, program_pointer, first_instruction,
          is_input_active, input_attrs, shell,
          err, last_call, idle, exec, steps, inputs, stack_ops, asm, app

cpuVars == <<isa, architecture, io_arch, registers, data_memory, program_memory,
             instruction, opcode, long_registers, long_register_result,
             long_immediates, long_immediate_result, additional_jump,
             instr_size_list, program_pointer, first_instruction,
             is_input_active, input_attrs, shell>>

vars == <<isa, architecture, io_arch, registers, data_memory, program_memory,
          instruction, opcode, long_registers, long_register_result,
          long_immediates, long_immediate_result, additional_jump,
          instr_size_list, program_pointer, first_instruction,
          is_input_active, input_attrs, shell,
          err, last_call, idle, exec, steps, inputs, stack_ops, asm, app>>

(***************************************************************************)
(* Bounds of the exploration.                                              *)
(***************************************************************************)
MaxSteps == 7
MaxInputs == 2
MaxOps == 3
MaxClicks == 2

(***************************************************************************)
(* Program constants.                                                      *)
(***************************************************************************)
memory_size == 1024
program_start == 512
tos_start == 256
stack_start == 1024
shell_start == 1004
shell_end == 1024

Pow2(n) == 2 ^ n

Min(a, b) == IF a < b THEN a ELSE b
Max(a, b) == IF a > b THEN a ELSE b

(***************************************************************************)
(* Bit strings: int(b.to01(), 2), bin(n)[2:], str.rjust, str.ljust,        *)
(* and Python slicing b[a:c].                                              *)
(***************************************************************************)
RECURSIVE ToInt(_)
ToInt(b) == IF b = <<>> THEN 0
            ELSE 2 * ToInt(SubSeq(b, 1, Len(b) - 1)) + b[Len(b)]

RECURSIVE Bin(_)
Bin(n) == IF n < 2 THEN <<n>> ELSE Bin(n \div 2) \o <<n % 2>>

Rjust(b, w, fill) == IF Len(b) >= w THEN b
                     ELSE [i \in 1..(w - Len(b)) |-> fill] \o b

Ljust(b, w, fill) == IF Len(b) >= w THEN b
                     ELSE b \o [i \in 1..(w - Len(b)) |-> fill]

BitSlice(b, a, c) == SubSeq(b, a + 1, Min(c, Len(b)))

Word(n) == Rjust(Bin(n), 16, 0)

Zeros(w) == [i \in 1..w |-> 0]

Ones(w) == [i \in 1..w |-> 1]

(***************************************************************************)
(* Python list slicing l[a:b] with negative and out-of-range indices, and  *)
(* sum().                                                                  *)
(***************************************************************************)
NormIdx(i, n) == IF i < 0 THEN Max(i + n, 0) ELSE Min(i, n)

ListSlice(l, a, b) == SubSeq(l, NormIdx(a, Len(l)) + 1, NormIdx(b, Len(l)))

RECURSIVE Sum(_)
Sum(l) == IF l = <<>> THEN 0 ELSE l[1] + Sum(Tail(l))

(***************************************************************************)
(* modules.functions.twos_complement: the signed value of a bits-wide      *)
(* field, and the field of a negative value.                              *)
(***************************************************************************)
twos_complement(val, bits) ==
    IF val < 0 THEN val + Pow2(bits)
    ELSE IF (val \div Pow2(bits - 1)) % 2 = 1 THEN val - Pow2(bits)
    ELSE val

(***************************************************************************)
(* modules.memory.Memory: read_data(start, end) and write_data(start,     *)
(* bits) on a buffer of memory_size * 8 bits; an access beyond the buffer  *)
(* is an error.                                                            *)
(***************************************************************************)
MemInRange(start, end) == 0 <= start /\ start <= end /\ end <= memory_size * 8

MemRead(mem, start, end) ==
    [i \in 1..(end - start) |-> IF (start + i - 1) \in mem THEN 1 ELSE 0]

MemWrite(mem, start, bits) ==
    (mem \ (start..(start + Len(bits) - 1)))
      \cup {start + i - 1 : i \in {j \in 1..Len(bits) : bits[j] = 1}}

(***************************************************************************)
(* Instruction sizes per ISA: <<instruction bits, opcode bits, byte bits>>.*)
(***************************************************************************)
instruction_sizes ==
    [i \in {"stack", "accumulator", "risc", "cisc"} |->
        CASE i = "stack" -> <<6, 6, 6>>
          [] i = "accumulator" -> <<8, 8, 8>>
          [] i = "risc" -> <<16, 6, 8>>
          [] i = "cisc" -> <<8, 8, 8>>]

(***************************************************************************)
(* Styles of the CISC opcode: style code -> <<register counter, constant   *)
(* counter>>.  Style 7 has no entry.                                       *)
(***************************************************************************)
cisc_styles == (0 :> <<1, 0>>) @@ (1 :> <<0, 0>>) @@ (2 :> <<0, 1>>) @@
               (3 :> <<2, 0>>) @@ (4 :> <<1, 1>>) @@ (5 :> <<2, 1>>) @@
               (6 :> <<1, 2>>)

(***************************************************************************)
(* registers.json: per ISA the register names and, for the register ISAs,  *)
(* the three-bit code of every register.                                   *)
(***************************************************************************)
register_names ==
    [i \in {"stack", "accumulator", "risc", "cisc"} |->
        CASE i = "stack" -> {"TOS", "SP", "IP", "FR"}
          [] i = "accumulator" -> {"ACC", "IR", "SP", "IP", "FR"}
          [] i = "risc" -> {"R00", "R01", "R02", "R03", "LR", "SP", "IP", "FR"}
          [] i = "cisc" -> {"R00", "R01", "R02", "R03", "SP", "BP", "IP", "FR"}]

register_codes ==
    [i \in {"stack", "accumulator", "risc", "cisc"} |->
        CASE i = "risc" -> (0 :> "R00") @@ (1 :> "R01") @@ (2 :> "R02") @@ (3 :> "R03") @@
                           (4 :> "LR") @@ (5 :> "SP") @@ (6 :> "IP") @@ (7 :> "FR")
          [] i = "cisc" -> (0 :> "R00") @@ (1 :> "R01") @@ (2 :> "R02") @@ (3 :> "R03") @@
                           (4 :> "SP") @@ (5 :> "BP") @@ (6 :> "IP") @@ (7 :> "FR")
          [] OTHER -> <<>>]

(***************************************************************************)
(* instructions.json: per ISA a map opcode -> mnemonic, result category    *)
(* and operand aliases.  For risc and cisc an entry is                     *)
(* [mnemonic, category, aliases]; for stack and accumulator it is          *)
(* [mnemonic, [category, alias, ...]].  Opcodes are written as the integer *)
(* value of the opcode bits.                                               *)
(***************************************************************************)
RC(name, res, aliases) == [name |-> name, res_type |-> res, list |-> aliases]

SA(name, list) == [name |-> name, res_type |-> list[1], list |-> list]

instructions_risc ==
    (1 :> RC("nop", "nop", <<>>)) @@
    (2 :> RC("mov", "firstop", <<"reg", "reg">>)) @@
    (3 :> RC("mov", "firstop", <<"reg", "imm7">>)) @@
    (4 :> RC("add", "firstop", <<"reg", "reg">>)) @@
    (5 :> RC("sub", "firstop", <<"reg", "reg">>)) @@
    (6 :> RC("cmp", "flags", <<"reg", "reg">>)) @@
    (7 :> RC("push", "stackpush", <<"reg">>)) @@
    (8 :> RC("pop", "stackpop", <<"reg">>)) @@
    (9 :> RC("call", "call", <<"imm10">>)) @@
    (10 :> RC("call", "call", <<"reg">>)) @@
    (11 :> RC("ret", "ret", <<>>)) @@
    (12 :> RC("jmp", "jmp", <<"imm10">>)) @@
    (13 :> RC("jc", "jmp", <<"reg">>)) @@
    (14 :> RC("je", "jmp", <<"imm10">>)) @@
    (15 :> RC("jne", "jmp", <<"imm10">>)) @@
    (16 :> RC("jg", "jmp", <<"imm10">>)) @@
    (17 :> RC("jge", "jmp", <<"imm10">>)) @@
    (18 :> RC("jl", "jmp", <<"imm10">>)) @@
    (19 :> RC("jle", "jmp", <<"imm10">>)) @@
    (20 :> RC("in", "in", <<"reg", "imm7">>)) @@
    (21 :> RC("out", "out", <<"imm7", "reg">>)) @@
    (22 :> RC("mov", "firstop", <<"memreg", "reg">>)) @@
    (23 :> RC("mov", "firstop", <<"reg", "memreg">>)) @@
    (24 :> RC("mov_low", "firstop", <<"reg", "imm8">>)) @@
    (25 :> RC("mov_low", "firstop", <<"reg", "imm8">>))

instructions_cisc ==
    (1 :> RC("push", "stackpush", <<"reg">>)) @@
    (2 :> RC("pop", "stackpop", <<"reg">>)) @@
    (3 :> RC("jc", "jmp", <<"reg">>)) @@
    (4 :> RC("call", "call", <<"reg">>)) @@
    (33 :> RC("nop", "nop", <<>>)) @@
    (34 :> RC("ret", "ret", <<>>)) @@
    (35 :> RC("leave", "leave", <<>>)) @@
    (65 :> RC("call", "call", <<"imm16">>)) @@
    (66 :> RC("jmp", "jmp", <<"imm16">>)) @@
    (67 :> RC("je", "jmp", <<"imm16">>)) @@
    (68 :> RC("jne", "jmp", <<"imm16">>)) @@
    (69 :> RC("jg", "jmp", <<"imm16">>)) @@
    (70 :> RC("jge", "jmp", <<"imm16">>)) @@
    (71 :> RC("jl", "jmp", <<"imm16">>)) @@
    (72 :> RC("jle", "jmp", <<"imm16">>)) @@
    (73 :> RC("enter", "enter", <<"imm16">>)) @@
    (97 :> RC("mov", "firstop", <<"reg", "reg">>)) @@
    (98 :> RC("add", "firstop", <<"reg", "reg">>)) @@
    (99 :> RC("sub", "firstop", <<"reg", "reg">>)) @@
    (100 :> RC("cmp", "flags", <<"reg", "reg">>)) @@
    (101 :> RC("mov", "firstop", <<"memreg", "reg">>)) @@
    (102 :> RC("mov", "firstop", <<"reg", "memreg">>)) @@
    (129 :> RC("mov", "firstop", <<"reg", "imm16">>)) @@
    (130 :> RC("in", "in", <<"reg", "imm16">>)) @@
    (131 :> RC("out", "out", <<"imm16", "reg">>))

instructions_stack ==
    (1 :> SA("nop", <<"nop">>)) @@
    (2 :> SA("add", <<"tos", "tospop", "tospop">>)) @@
    (3 :> SA("sub", <<"tos", "tospop", "tospop">>)) @@
    (4 :> SA("cmp", <<"fr", "tos2", "tos">>)) @@
    (5 :> SA("push", <<"stackpush", "tospop">>)) @@
    (6 :> SA("pop", <<"stackpop">>)) @@
    (7 :> SA("popf", <<"stackpopf">>)) @@
    (8 :> SA("pushf", <<"stackpush", "fr">>)) @@
    (9 :> SA("call", <<"call", "tos">>)) @@
    (10 :> SA("ret", <<"ret">>)) @@
    (11 :> SA("jc", <<"jmp", "tos">>)) @@
    (12 :> SA("swap", <<"swap", "tos", "tos2">>)) @@
    (13 :> SA("load", <<"tos", "memtos">>)) @@
    (14 :> SA("store", <<"memtos", "tospop">>)) @@
    (33 :> SA("mov", <<"tos", "imm">>)) @@
    (34 :> SA("call", <<"call", "imm">>)) @@
    (35 :> SA("jmp", <<"jmp", "imm">>)) @@
    (36 :> SA("je", <<"jmp", "imm">>)) @@
    (37 :> SA("jne", <<"jmp", "imm">>)) @@
    (38 :> SA("jg", <<"jmp", "imm">>)) @@
    (39 :> SA("jge", <<"jmp", "imm">>)) @@
    (40 :> SA("jl", <<"jmp", "imm">>)) @@
    (41 :> SA("jle", <<"jmp", "imm">>)) @@
    (42 :> SA("in", <<"in", "imm">>)) @@
    (43 :> SA("out", <<"out", "imm", "tospop">>))

instructions_accumulator ==
    (1 :> SA("nop", <<"nop">>)) @@
    (2 :> SA("add", <<"acc", "memir">>)) @@
    (3 :> SA("push", <<"stackpush", "acc">>)) @@
    (4 :> SA("pop", <<"stackpop", "acc">>)) @@
    (5 :> SA("call", <<"call", "acc">>)) @@
    (6 :> SA("ret", <<"ret">>)) @@
    (7 :> SA("jc", <<"jmp", "acc">>)) @@
    (8 :> SA("store", <<"memir", "acc">>)) @@
    (9 :> SA("mov", <<"ir", "acc">>)) @@
    (10 :> SA("popf", <<"stackpop", "fr">>)) @@
    (129 :> SA("mov", <<"acc", "imm">>)) @@
    (130 :> SA("add", <<"acc", "imm">>)) @@
    (131 :> SA("sub", <<"acc", "imm">>)) @@
    (132 :> SA("cmp", <<"cmp", "acc", "imm">>)) @@
    (133 :> SA("call", <<"call", "imm">>)) @@
    (134 :> SA("jmp", <<"jmp", "imm">>)) @@
    (135 :> SA("je", <<"jmp", "imm">>)) @@
    (136 :> SA("jne", <<"jmp", "imm">>)) @@
    (137 :> SA("jg", <<"jmp", "imm">>)) @@
    (138 :> SA("jge", <<"jmp", "imm">>)) @@
    (139 :> SA("jl", <<"jmp", "imm">>)) @@
    (140 :> SA("jle", <<"jmp", "imm">>)) @@
    (141 :> SA("in", <<"in", "imm">>)) @@
    (142 :> SA("out", <<"out", "imm", "acc">>))

instructions_json ==
    [i \in {"stack", "accumulator", "risc", "cisc"} |->
        CASE i = "stack" -> instructions_stack
          [] i = "accumulator" -> instructions_accumulator
          [] i = "risc" -> instructions_risc
          [] i = "cisc" -> instructions_cisc]

(***************************************************************************)
(* Operand aliases: operand.startswith("imm"), int(operand[3:]),           *)
(* operand.startswith("tos").                                              *)
(***************************************************************************)
ImmLen == ("imm7" :> 7) @@ ("imm8" :> 8) @@ ("imm10" :> 10) @@ ("imm16" :> 16)

IsImm(a) == a = "imm" \/ a \in DOMAIN ImmLen

StartsWithTos(a) == a \in {"tos", "tos2", "tospop"}

(***************************************************************************)
(* The CPU object as a record; an exception raised by the code is kept in  *)
(* the field err together with the state reached when it was raised.       *)
(***************************************************************************)
State == [isa |-> isa, architecture |-> architecture, io_arch |-> io_arch,
          registers |-> registers, data_memory |-> data_memory,
          program_memory |-> program_memory, instruction |-> instruction,
          opcode |-> opcode, long_registers |-> long_registers,
          long_register_result |-> long_register_result,
          long_immediates |-> long_immediates,
          long_immediate_result |-> long_immediate_result,
          additional_jump |-> additional_jump,
          instr_size_list |-> instr_size_list,
          program_pointer |-> program_pointer,
          first_instruction |-> first_instruction,
          is_input_active |-> is_input_active, input_attrs |-> input_attrs,
          shell |-> shell, err |-> "none"]

Ok(s) == s.err = "none"

Raise(s, e) == IF Ok(s) THEN [s EXCEPT !.err = e] ELSE s

HasReg(s, name) == name \in DOMAIN s.registers

RegInt(s, name) == ToInt(s.registers[name])

(***************************************************************************)
(* modules.register.Register.write_data: a value wider than 16 bits fails, *)
(* a narrower one is left-padded with zeros.                               *)
(***************************************************************************)
reg_write_data(s, name, bits) ==
    IF ~Ok(s) THEN s
    ELSE IF ~HasReg(s, name) THEN Raise(s, "KeyError")
    ELSE IF Len(bits) > 16 THEN Raise(s, "RegisterError")
    ELSE [s EXCEPT !.registers[name] = Rjust(bits, 16, 0)]

(***************************************************************************)
(* register.write_data(bin(n)[2:]): bin of a negative number is no bit     *)
(* string.                                                                 *)
(***************************************************************************)
reg_write_int(s, name, n) ==
    IF n < 0 THEN Raise(s, "ValueError") ELSE reg_write_data(s, name, Bin(n))

(***************************************************************************)
(* data_memory.write_data: in the neumann and harvardm architectures the   *)
(* program memory is the same object.                                      *)
(***************************************************************************)
\* a data write that never reaches program memory
data_write_split(s, start, bits) ==
    IF ~Ok(s) THEN s
    ELSE IF ~MemInRange(start, start + Len(bits)) THEN Raise(s, "MemoryOutOfRange")
    ELSE [s EXCEPT !.data_memory = MemWrite(s.data_memory, start, bits)]

data_write(s, start, bits) ==
    IF ~Ok(s) THEN s
    ELSE IF ~MemInRange(start, start + Len(bits)) THEN Raise(s, "MemoryOutOfRange")
    ELSE IF s.architecture \in {"neumann", "harvardm"}
         THEN [s EXCEPT !.data_memory = MemWrite(s.data_memory, start, bits),
                        !.program_memory = MemWrite(s.data_memory, start, bits)]
         ELSE [s EXCEPT !.data_memory = MemWrite(s.data_memory, start, bits)]

(***************************************************************************)
(* A value-returning helper returns the state and the value.               *)
(***************************************************************************)
Ret(s, v) == [st |-> s, val |-> v]

data_read(s, start, end) ==
    IF ~Ok(s) THEN Ret(s, <<>>)
    ELSE IF ~MemInRange(start, end) THEN Ret(Raise(s, "MemoryOutOfRange"), <<>>)
    ELSE Ret(s, MemRead(s.data_memory, start, end))

(***************************************************************************)
(* CPU.__push_stack and CPU.__pop_stack: the memory stack.                 *)
(***************************************************************************)
\* a push that writes at SP instead of below it
push_stack_at_sp(s, value) ==
    IF ~Ok(s) THEN s
    ELSE IF ~HasReg(s, "SP") THEN Raise(s, "KeyError")
    ELSE LET stack_pointer_value == RegInt(s, "SP") * 8
             s1 == data_write(s, stack_pointer_value, value)
         IN IF ~Ok(s1) THEN s1
            ELSE IF stack_pointer_value \div 8 - 2 < 0 THEN Raise(s1, "ValueError")
            ELSE [s1 EXCEPT !.registers["SP"] =
                                Rjust(Bin(stack_pointer_value \div 8 - 2), 16, 0)]

push_stack(s, value) ==
    IF ~Ok(s) THEN s
    ELSE IF ~HasReg(s, "SP") THEN Raise(s, "KeyError")
    ELSE LET stack_pointer_value == RegInt(s, "SP") * 8
             s1 == data_write(s, stack_pointer_value - 16, value)
         IN IF ~Ok(s1) THEN s1
            ELSE IF stack_pointer_value \div 8 - 2 < 0 THEN Raise(s1, "ValueError")
            ELSE [s1 EXCEPT !.registers["SP"] =
                                Rjust(Bin(stack_pointer_value \div 8 - 2), 16, 0)]

\* a pop that reads the top word and leaves SP where it was
pop_stack_keeps_sp(s) ==
    IF ~Ok(s) THEN Ret(s, <<>>)
    ELSE IF ~HasReg(s, "SP") THEN Ret(Raise(s, "KeyError"), <<>>)
    ELSE LET stack_pointer_value == RegInt(s, "SP") * 8
         IN data_read(s, stack_pointer_value, stack_pointer_value + 16)

pop_stack(s) ==
    IF ~Ok(s) THEN Ret(s, <<>>)
    ELSE IF ~HasReg(s, "SP") THEN Ret(Raise(s, "KeyError"), <<>>)
    ELSE LET stack_pointer_value == RegInt(s, "SP") * 8
             s1 == reg_write_int(s, "SP", stack_pointer_value \div 8 + 2)
         IN data_read(s1, stack_pointer_value, stack_pointer_value + 16)

(***************************************************************************)
(* CPU.__pop_tos: the register stack of the stack ISA.                     *)
(***************************************************************************)
\* a pop of the register stack that reads at TOS instead of below it
pop_tos_at_tos(s, second, pop) ==
    IF ~Ok(s) THEN Ret(s, <<>>)
    ELSE IF ~HasReg(s, "TOS") THEN Ret(Raise(s, "KeyError"), <<>>)
    ELSE LET tos_val == RegInt(s, "TOS") * 8
             start_read == IF second /\ tos_val > tos_start THEN tos_val - 16 ELSE tos_val
             r == data_read(s, start_read, start_read + 16)
         IN IF ~Ok(r.st) THEN r
            ELSE IF pop THEN Ret(reg_write_int(r.st, "TOS", tos_val \div 8 - 2), r.val)
            ELSE r

pop_tos(s, second, pop) ==
    IF ~Ok(s) THEN Ret(s, <<>>)
    ELSE IF ~HasReg(s, "TOS") THEN Ret(Raise(s, "KeyError"), <<>>)
    ELSE LET tos_val == RegInt(s, "TOS") * 8
             start_read == IF second /\ tos_val > tos_start THEN tos_val - 16 ELSE tos_val
             r == data_read(s, start_read - 16, start_read)
         IN IF ~Ok(r.st) THEN r
            ELSE IF pop THEN Ret(reg_write_int(r.st, "TOS", tos_val \div 8 - 2), r.val)
            ELSE r

(***************************************************************************)
(* CPU.__read_instruction: fetch the instruction word at IP, its opcode,   *)
(* and the long register pack and long immediates that follow it.          *)
(***************************************************************************)
\* a register pack kept in the order of its bits, so that a pop yields the
\* second code first
read_long_registers_in_order(s, register_reader, loc) ==
    LET bb == instruction_sizes[s.isa][3]
        pack == MemRead(s.program_memory, loc, loc + bb)
        regs == IF register_reader = 2
                THEN <<BitSlice(pack, 0, 3), BitSlice(pack, 3, 6)>>
                ELSE <<BitSlice(pack, 0, 3)>>
    IN IF register_reader = 0 THEN s
       ELSE IF ~MemInRange(loc, loc + bb) THEN Raise(s, "MemoryOutOfRange")
       ELSE [s EXCEPT !.long_registers = regs,
                      !.long_register_result = regs[Len(regs)],
                      !.additional_jump = @ + 1]

read_long_registers(s, register_reader, loc) ==
    LET bb == instruction_sizes[s.isa][3]
        pack == MemRead(s.program_memory, loc, loc + bb)
        regs == IF register_reader = 2
                THEN <<BitSlice(pack, 3, 6), BitSlice(pack, 0, 3)>>
                ELSE <<BitSlice(pack, 0, 3)>>
    IN IF register_reader = 0 THEN s
       ELSE IF ~MemInRange(loc, loc + bb) THEN Raise(s, "MemoryOutOfRange")
       ELSE [s EXCEPT !.long_registers = regs,
                      !.long_register_result = regs[Len(regs)],
                      !.additional_jump = @ + 1]

\* a widening that pads with zeros
SignExtend_zero_padded(temp) == Rjust(temp, 16, 0)

SignExtend(temp) == Rjust(temp, 16, temp[1])

read_long_immediates(s, constant_reader, loc) ==
    LET bb == instruction_sizes[s.isa][3]
        imm1 == SignExtend(MemRead(s.program_memory, loc, loc + 2 * bb))
        imm2 == SignExtend(MemRead(s.program_memory, loc + 2 * bb, loc + 4 * bb))
        s0 == [s EXCEPT !.long_immediates = <<>>]
        s1 == [s0 EXCEPT !.long_immediates = <<imm1>>,
                         !.long_immediate_result = imm1,
                         !.additional_jump = @ + 2]
        s2 == [s1 EXCEPT !.long_immediates = <<imm2, imm1>>,
                         !.additional_jump = @ + 2]
    IN IF ~Ok(s) THEN s
       ELSE IF constant_reader = 0 THEN s0
       ELSE IF ~MemInRange(loc, loc + 2 * bb) THEN Raise(s0, "MemoryOutOfRange")
       ELSE IF constant_reader = 1 THEN s1
       ELSE IF ~MemInRange(loc + 2 * bb, loc + 4 * bb) THEN Raise(s1, "MemoryOutOfRange")
       ELSE s2

read_instruction(s) ==
    LET isz == instruction_sizes[s.isa]
        loc0 == RegInt(s, "IP") * isz[3]
        instr == MemRead(s.program_memory, loc0, loc0 + isz[1])
        opc == BitSlice(instr, 0, isz[2])
        style == ToInt(BitSlice(opc, 0, 3))
        s1 == [s EXCEPT !.instruction = instr, !.opcode = opc]
        register_reader == IF s.isa = "cisc" THEN cisc_styles[style][1] ELSE 0
        constant_reader == IF s.isa \in {"stack", "accumulator"}
                           THEN (IF opc[1] = 1 THEN 1 ELSE 0)
                           ELSE IF s.isa = "cisc" THEN cisc_styles[style][2] ELSE 0
        loc1 == loc0 + isz[1]
        s2 == read_long_registers([s1 EXCEPT !.additional_jump = 0], register_reader, loc1)
        loc2 == IF register_reader > 0 THEN loc1 + isz[3] ELSE loc1
    IN IF ~Ok(s) THEN s
       ELSE IF ~MemInRange(loc0, loc0 + isz[1]) THEN Raise(s, "MemoryOutOfRange")
       ELSE IF s.isa = "cisc" /\ style \notin DOMAIN cisc_styles THEN Raise(s1, "KeyError")
       ELSE read_long_immediates(s2, constant_reader, loc2)

(***************************************************************************)
(* CPU.__determine_start_point: where the operands start in a risc         *)
(* instruction; -1 stands for None.                                        *)
(***************************************************************************)
determine_start_point(s) ==
    IF s.isa = "risc"
    THEN (IF ToInt(s.opcode) \in DOMAIN instructions_json["risc"]
             /\ instructions_json["risc"][ToInt(s.opcode)].name \in {"mov_low", "mov_high"}
          THEN 5 ELSE 6)
    ELSE -1

Upper(a) == CASE a = "fr" -> "FR" [] a = "ir" -> "IR" [] a = "acc" -> "ACC" [] OTHER -> a

(***************************************************************************)
(* The register a three-bit code names (self.register_codes[code]).        *)
(***************************************************************************)
CodeKnown(s, code) == Len(code) = 3 /\ ToInt(code) \in DOMAIN register_codes[s.isa]

CodeReg(s, code) == register_codes[s.isa][ToInt(code)]

(***************************************************************************)
(* CPU.__add_operands, one operand: the state, the moved start point and   *)
(* the values appended to operands_values.                                 *)
(***************************************************************************)
Opd(s, sp, vals) == [st |-> s, sp |-> sp, vals |-> vals]

\* the register code of a reg / memreg operand and the state after taking it
take_register_code(s, sp) ==
    IF s.isa = "cisc"
    THEN (IF s.long_registers = <<>> THEN [st |-> Raise(s, "IndexError"), sp |-> sp, code |-> <<>>]
          ELSE [st |-> [s EXCEPT !.long_registers = SubSeq(@, 1, Len(@) - 1)], sp |-> sp,
                code |-> s.long_registers[Len(s.long_registers)]])
    ELSE IF sp < 0 THEN [st |-> Raise(s, "TypeError"), sp |-> sp, code |-> <<>>]
    ELSE [st |-> s, sp |-> sp + 3, code |-> BitSlice(s.instruction, sp, sp + 3)]

take_long_immediate(s) ==
    IF s.long_immediates = <<>> THEN Ret(Raise(s, "IndexError"), <<>>)
    ELSE Ret([s EXCEPT !.long_immediates = SubSeq(@, 1, Len(@) - 1)],
             s.long_immediates[Len(s.long_immediates)])

add_operand(s, sp, operand) ==
    CASE operand = "reg" ->
           LET c == take_register_code(s, sp)
           IN IF ~Ok(c.st) THEN Opd(c.st, c.sp, <<>>)
              ELSE IF ~CodeKnown(s, c.code) THEN Opd(Raise(c.st, "KeyError"), c.sp, <<>>)
              ELSE Opd(c.st, c.sp, <<s.registers[CodeReg(s, c.code)]>>)
      [] operand = "regoff" ->
           LET c == take_register_code(s, sp)
               i == take_long_immediate(c.st)
               register_value == twos_complement(RegInt(s, CodeReg(s, c.code)), 16)
               offset_number == twos_complement(ToInt(i.val), 16)
               total == register_value + offset_number
           IN IF ~Ok(c.st) THEN Opd(c.st, c.sp, <<>>)
              ELSE IF ~CodeKnown(s, c.code) THEN Opd(Raise(c.st, "KeyError"), c.sp, <<>>)
              ELSE IF ~Ok(i.st) THEN Opd(i.st, c.sp, <<>>)
              ELSE Opd(i.st, c.sp,
                       <<Rjust(Bin(IF total < 0 THEN -total ELSE total), 16,
                               IF total >= 0 THEN 0 ELSE 1)>>)
      [] operand \in {"memreg", "simdreg"} ->
           LET c == take_register_code(s, sp)
               tmp_register == RegInt(s, CodeReg(s, c.code)) * 8
               r == data_read(c.st, tmp_register,
                              tmp_register + (IF operand = "simdreg" THEN 64 ELSE 16))
           IN IF ~Ok(c.st) THEN Opd(c.st, c.sp, <<>>)
              ELSE IF ~CodeKnown(s, c.code) THEN Opd(Raise(c.st, "KeyError"), c.sp, <<>>)
              ELSE IF ~Ok(r.st) THEN Opd(r.st, c.sp, <<>>)
              ELSE Opd(r.st, c.sp, <<r.val>>)
      [] operand = "memregoff" ->
           LET c == take_register_code(s, sp)
               i == take_long_immediate(c.st)
               register_offset == twos_complement(RegInt(s, CodeReg(s, c.code)), 16)
                                    + twos_complement(ToInt(i.val), 16)
               r == data_read(i.st, register_offset * 8, register_offset * 8 + 16)
           IN IF ~Ok(c.st) THEN Opd(c.st, c.sp, <<>>)
              ELSE IF ~CodeKnown(s, c.code) THEN Opd(Raise(c.st, "KeyError"), c.sp, <<>>)
              ELSE IF ~Ok(r.st) THEN Opd(r.st, c.sp, <<>>)
              ELSE Opd(r.st, c.sp, <<r.val>>)
      [] IsImm(operand) ->
           IF s.isa \in {"stack", "accumulator", "cisc"}
           THEN LET i == take_long_immediate(s)
                IN IF ~Ok(i.st) THEN Opd(i.st, sp, <<>>) ELSE Opd(i.st, sp, <<i.val>>)
           ELSE IF operand \notin DOMAIN ImmLen THEN Opd(Raise(s, "ValueError"), sp, <<>>)
           ELSE Opd(s, sp + ImmLen[operand],
                    <<BitSlice(s.instruction, sp, sp + ImmLen[operand])>>)
      [] operand = "tos" ->
           LET r == pop_tos(s, FALSE, FALSE)
           IN IF ~Ok(r.st) THEN Opd(r.st, sp, <<>>) ELSE Opd(r.st, sp, <<r.val>>)
      [] operand = "tospop" ->
           LET r == pop_tos(s, FALSE, TRUE)
           IN IF ~Ok(r.st) THEN Opd(r.st, sp, <<>>) ELSE Opd(r.st, sp, <<r.val>>)
      [] operand = "tos2" ->
           LET r == pop_tos(s, TRUE, FALSE)
           IN IF ~Ok(r.st) THEN Opd(r.st, sp, <<>>) ELSE Opd(r.st, sp, <<r.val>>)
      [] operand = "memtos" ->
           LET a == pop_tos(s, FALSE, TRUE)
               r == data_read(a.st, ToInt(a.val) * 8, ToInt(a.val) * 8 + 16)
           IN IF ~Ok(r.st) THEN Opd(r.st, sp, <<>>) ELSE Opd(r.st, sp, <<r.val>>)
      [] operand = "memir" ->
           IF ~HasReg(s, "IR") THEN Opd(Raise(s, "KeyError"), sp, <<>>)
           ELSE LET r == data_read(s, RegInt(s, "IR") * 8, RegInt(s, "IR") * 8 + 16)
                IN IF ~Ok(r.st) THEN Opd(r.st, sp, <<>>) ELSE Opd(r.st, sp, <<r.val>>)
      [] operand = "memimm" ->
           IF s.long_immediate_result = <<>> THEN Opd(Raise(s, "AttributeError"), sp, <<>>)
           ELSE LET r == data_read(s, ToInt(s.long_immediate_result) * 8,
                                   ToInt(s.long_immediate_result) * 8 + 16)
                IN IF ~Ok(r.st) THEN Opd(r.st, sp, <<>>) ELSE Opd(r.st, sp, <<r.val>>)
      [] operand \in {"fr", "ir", "acc"} ->
           IF ~HasReg(s, Upper(operand)) THEN Opd(Raise(s, "KeyError"), sp, <<>>)
           ELSE Opd(s, sp, <<s.registers[Upper(operand)]>>)
      [] operand = "one" -> Opd(s, sp, <<Word(1)>>)
      [] OTHER -> Opd(s, sp, <<>>)

(***************************************************************************)
(* CPU.__add_operands: the operand values of the aliases, in order.        *)
(***************************************************************************)
RECURSIVE add_operands(_, _, _, _)
add_operands(s, start_point, operands_aliases, operands_values) ==
    IF ~Ok(s) \/ operands_aliases = <<>> THEN Ret(s, operands_values)
    ELSE LET r == add_operand(s, start_point, operands_aliases[1])
         IN add_operands(r.st, r.sp, Tail(operands_aliases), operands_values \o r.vals)

(***************************************************************************)
(* Result destinations: None, a byte address of data memory, a register,   *)
(* or the device of a port.                                                *)
(***************************************************************************)
NoDest == [kind |-> "none", addr |-> 0, ref |-> ""]

MemDest(a) == [kind |-> "memory", addr |-> a, ref |-> ""]

RegDest(name) == [kind |-> "register", addr |-> 0, ref |-> name]

PortDest(port) == [kind |-> "port", addr |-> 0, ref |-> port]

Dst(s, mwa, dest, tos_push) ==
    [st |-> s, memory_write_access |-> mwa, result_destination |-> dest, tos_push |-> tos_push]

\* self.ports_dictionary[str(port_num)]: the only device is the shell at port 1
port_device(s, port_num) ==
    IF port_num = 1 THEN Dst(s, FALSE, PortDest("1"), FALSE)
    ELSE Dst(Raise(s, "KeyError"), FALSE, NoDest, FALSE)

long_immediate_port(s) ==
    IF s.long_immediate_result = <<>> THEN Dst(Raise(s, "AttributeError"), FALSE, NoDest, FALSE)
    ELSE port_device(s, ToInt(s.long_immediate_result))

(***************************************************************************)
(* CPU.__determine_result_dest.                                            *)
(***************************************************************************)
determine_result_dest(s, start_point, operands_aliases) ==
    LET entry == instructions_json[s.isa][ToInt(s.opcode)]
        res_type == entry.res_type
    IN
    IF ~Ok(s) THEN Dst(s, FALSE, NoDest, FALSE)
    ELSE IF s.isa = "stack" THEN
        CASE res_type \in {"tos", "in", "swap"} -> Dst(s, TRUE, MemDest(RegInt(s, "TOS")), TRUE)
          [] res_type = "memtos" ->
               LET r == pop_tos(s, FALSE, TRUE)
               IN IF ~Ok(r.st) THEN Dst(r.st, TRUE, NoDest, FALSE)
                  ELSE Dst(r.st, TRUE, MemDest(ToInt(r.val)), FALSE)
          [] res_type = "fr" -> Dst(s, FALSE, RegDest("FR"), FALSE)
          [] res_type = "stackpop" -> Dst(s, TRUE, MemDest(RegInt(s, "TOS")), TRUE)
          [] res_type = "stackpopf" -> Dst(s, FALSE, RegDest("FR"), FALSE)
          [] res_type = "out" -> long_immediate_port(s)
          [] OTHER -> Dst(s, FALSE, NoDest, FALSE)
    ELSE IF s.isa = "accumulator" THEN
        CASE res_type \in {"acc", "in"} -> Dst(s, FALSE, RegDest("ACC"), FALSE)
          [] res_type = "stackpop" ->
               IF Len(entry.list) < 2 THEN Dst(Raise(s, "IndexError"), FALSE, NoDest, FALSE)
               ELSE IF ~HasReg(s, Upper(entry.list[2]))
                    THEN Dst(Raise(s, "KeyError"), FALSE, NoDest, FALSE)
               ELSE Dst(s, FALSE, RegDest(Upper(entry.list[2])), FALSE)
          [] res_type = "memir" -> Dst(s, TRUE, MemDest(RegInt(s, "IR")), FALSE)
          [] res_type = "out" -> long_immediate_port(s)
          [] res_type \in {"cmp", "fr"} -> Dst(s, FALSE, RegDest("FR"), FALSE)
          [] res_type = "ir" -> Dst(s, FALSE, RegDest("IR"), FALSE)
          [] OTHER -> Dst(s, FALSE, NoDest, FALSE)
    ELSE
        CASE res_type \in {"firstop", "in", "stackpop", "simd", "simdstore"} ->
               LET register_code == IF s.isa = "cisc" THEN s.long_register_result
                                    ELSE BitSlice(s.instruction, start_point, start_point + 3)
               IN IF s.isa = "cisc" /\ s.long_register_result = <<>>
                  THEN Dst(Raise(s, "AttributeError"), FALSE, NoDest, FALSE)
                  ELSE IF operands_aliases = <<>>
                  THEN Dst(Raise(s, "IndexError"), FALSE, NoDest, FALSE)
                  ELSE IF operands_aliases[1] \in {"reg", "memreg", "simdreg", "memregoff"}
                          /\ ~CodeKnown(s, register_code)
                  THEN Dst(Raise(s, "KeyError"), FALSE, NoDest, FALSE)
                  ELSE IF operands_aliases[1] = "reg"
                  THEN Dst(s, FALSE, RegDest(CodeReg(s, register_code)), FALSE)
                  ELSE IF operands_aliases[1] \in {"memreg", "simdreg"}
                  THEN Dst(s, TRUE, MemDest(RegInt(s, CodeReg(s, register_code))), FALSE)
                  ELSE IF operands_aliases[1] = "memregoff"
                  THEN (IF s.long_immediate_result = <<>>
                        THEN Dst(Raise(s, "AttributeError"), TRUE, NoDest, FALSE)
                        ELSE Dst(s, TRUE,
                                 MemDest(RegInt(s, CodeReg(s, register_code))
                                           + twos_complement(ToInt(s.long_immediate_result), 16)),
                                 FALSE))
                  ELSE Dst(s, FALSE, NoDest, FALSE)
          [] res_type = "flags" -> Dst(s, FALSE, RegDest("FR"), FALSE)
          [] res_type = "out" ->
               IF s.io_arch = "mmio" THEN Dst(Raise(s, "SimulatorError"), FALSE, NoDest, FALSE)
               ELSE IF s.isa = "cisc" THEN long_immediate_port(s)
               ELSE IF operands_aliases = <<>> THEN Dst(Raise(s, "IndexError"), FALSE, NoDest, FALSE)
               ELSE IF operands_aliases[1] \notin DOMAIN ImmLen
                    THEN Dst(Raise(s, "ValueError"), FALSE, NoDest, FALSE)
               ELSE port_device(s, ToInt(BitSlice(s.instruction, start_point,
                                                  start_point + ImmLen[operands_aliases[1]])))
          [] OTHER -> Dst(s, FALSE, NoDest, FALSE)

(***************************************************************************)
(* modules.functions.functions_dictionary: the ALU.  A function takes the  *)
(* operand values and the flag register and returns the result and the     *)
(* new flag register.  The low four bits of FR are CF, ZF, OF, SF.         *)
(***************************************************************************)
functions_dictionary == {"mov", "mov_low", "add", "sub", "cmp"}

Bit(b) == IF b THEN 1 ELSE 0

SetFlags(fr, cf, zf, of, sf) ==
    SubSeq(Rjust(fr, 16, 0), 1, 12) \o <<Bit(cf), Bit(zf), Bit(of), Bit(sf)>>

Neg16(n) == n >= 32768

alu_add(a, b, fr) ==
    LET r == (a + b) % 65536
    IN [val |-> Word(r),
        fr |-> SetFlags(fr, a + b >= 65536, r = 0,
                        Neg16(a) = Neg16(b) /\ Neg16(r) # Neg16(a), Neg16(r))]

alu_sub(a, b, fr) ==
    LET r == (a - b + 65536) % 65536
    IN [val |-> Word(r),
        fr |-> SetFlags(fr, a < b, r = 0,
                        Neg16(a) # Neg16(b) /\ Neg16(r) # Neg16(a), Neg16(r))]

alu(name, ops, fr) ==
    CASE name = "mov" -> [val |-> ops[Len(ops)], fr |-> fr]
      [] name = "mov_low" ->
           [val |-> SubSeq(Rjust(ops[1], 16, 0), 1, 8) \o Rjust(ops[Len(ops)], 8, 0), fr |-> fr]
      [] name = "add" -> alu_add(ToInt(ops[1]), ToInt(ops[2]), fr)
      [] name = "sub" -> alu_sub(ToInt(ops[1]), ToInt(ops[2]), fr)
      [] name = "cmp" ->
           [val |-> alu_sub(ToInt(ops[1]), ToInt(ops[2]), fr).fr,
            fr |-> alu_sub(ToInt(ops[1]), ToInt(ops[2]), fr).fr]

AluArity(name) == IF name \in {"add", "sub", "cmp"} THEN 2 ELSE 1

(***************************************************************************)
(* modules.shell.Shell.out_shell: append the character whose code is the   *)
(* low byte of the value to the output of the shell.                       *)
(***************************************************************************)
out_shell(s, value) == [s EXCEPT !.shell.out = Append(@, ToInt(value) % 256)]

(***************************************************************************)
(* CPU.execute.  Every branch returns the state and go_to_next_instruction.*)
(***************************************************************************)
Go(s, go) == [st |-> s, go |-> go]

\* sum of the loaded instruction sizes between the current instruction and the target
jump_distance(s, jump_num) ==
    IF jump_num >= 0
    THEN Sum(ListSlice(s.instr_size_list, s.program_pointer, s.program_pointer + jump_num))
    ELSE -1 * Sum(ListSlice(s.instr_size_list, s.program_pointer + jump_num, s.program_pointer))

\* move IP by the distance of jump_num instructions and program_pointer by jump_num
jump_by(s, jump_num) ==
    LET s1 == reg_write_int(s, "IP", RegInt(s, "IP") + jump_distance(s, jump_num))
    IN IF ~Ok(s1) THEN s1 ELSE [s1 EXCEPT !.program_pointer = @ + jump_num]

\* the return point of a call is saved in LR (risc) or pushed on the memory stack
\* a return point one instruction too far
save_return_point_skips_one(s) ==
    IF s.isa = "risc" THEN reg_write_int(s, "LR", s.program_pointer + 2)
    ELSE IF s.program_pointer + 2 < 0 THEN Raise(s, "ValueError")
    ELSE push_stack(s, Word(s.program_pointer + 2))

save_return_point(s) ==
    IF s.isa = "risc" THEN reg_write_int(s, "LR", s.program_pointer + 1)
    ELSE IF s.program_pointer + 1 < 0 THEN Raise(s, "ValueError")
    ELSE push_stack(s, Word(s.program_pointer + 1))

call_immediate_case(operands_aliases) ==
    IsImm(operands_aliases[1]) \/ (Len(operands_aliases) > 1 /\ operands_aliases[2] = "imm")

execute_call(s, operands_aliases, operands_values) ==
    LET s1 == save_return_point(s)
        operand == operands_aliases[1]
        isz == instruction_sizes[s.isa]
    IN IF ~Ok(s1) THEN Go(s1, TRUE)
       ELSE IF operands_aliases = <<>> THEN Go(Raise(s1, "IndexError"), TRUE)
       ELSE IF call_immediate_case(operands_aliases) THEN
            (IF s.isa = "risc" THEN
                (IF operand \notin DOMAIN ImmLen THEN Go(Raise(s1, "ValueError"), TRUE)
                 ELSE IF operands_values = <<>> THEN Go(Raise(s1, "IndexError"), TRUE)
                 ELSE Go(jump_by(s1, twos_complement(ToInt(operands_values[1]), ImmLen[operand])),
                         FALSE))
             ELSE IF s.isa = "cisc" THEN
                (IF operands_values = <<>> THEN Go(Raise(s1, "IndexError"), TRUE)
                 ELSE Go(jump_by(s1, twos_complement(ToInt(operands_values[1]), 16)), FALSE))
             ELSE IF s.long_immediate_result = <<>> THEN Go(Raise(s1, "AttributeError"), TRUE)
             ELSE Go(jump_by(s1, twos_complement(ToInt(s.long_immediate_result), isz[1] * 2)),
                     FALSE))
       ELSE IF operand \notin {"reg", "tos", "acc", "regoff"} /\ Len(operands_aliases) < 2
            THEN Go(Raise(s1, "IndexError"), TRUE)
       ELSE IF operand \notin {"reg", "tos", "acc", "regoff"} /\ operands_aliases[2] # "acc"
            THEN Go(Raise(s1, "UnboundLocalError"), TRUE)
       ELSE IF operands_values = <<>> THEN Go(Raise(s1, "IndexError"), TRUE)
       ELSE Go(jump_by(s1, twos_complement(ToInt(operands_values[1]), 16)), FALSE)

execute_ret(s) ==
    LET r == IF s.isa = "risc" THEN Ret(s, s.registers["LR"]) ELSE pop_stack(s)
        return_point == ToInt(r.val)
        ip_value == RegInt(r.st, "IP")
        destination ==
            IF s.program_pointer >= return_point
            THEN ip_value - Sum(ListSlice(s.instr_size_list, return_point, s.program_pointer))
            ELSE ip_value - Sum(ListSlice(s.instr_size_list, s.program_pointer, return_point))
        s1 == reg_write_int(r.st, "IP", destination)
    IN IF ~Ok(r.st) THEN Go(r.st, TRUE)
       ELSE IF ~Ok(s1) THEN Go(s1, TRUE)
       ELSE Go([s1 EXCEPT !.program_pointer = return_point], FALSE)

\* a jump condition whose jg forgets the zero flag
should_jump_jg_as_jge(jmp_spec, flag_reg, operands_values) ==
    LET carry_flag == flag_reg[13]
        zero_flag == flag_reg[14]
        overflow_flag == flag_reg[15]
        sign_flag == flag_reg[16]
    IN CASE jmp_spec = "jmp" -> TRUE
         [] jmp_spec = "jc" -> operands_values[1] = Ones(16)
         [] jmp_spec = "je" -> zero_flag = 1
         [] jmp_spec = "jne" -> zero_flag # 1
         [] jmp_spec = "jg" -> sign_flag = overflow_flag
         [] jmp_spec = "jge" -> sign_flag = overflow_flag
         [] jmp_spec = "jl" -> sign_flag # overflow_flag
         [] jmp_spec = "jle" -> sign_flag # overflow_flag \/ zero_flag = 1
         [] OTHER -> FALSE

\* the jump condition on the low four bits of FR: carry, zero, overflow, sign
should_jump(jmp_spec, flag_reg, operands_values) ==
    LET carry_flag == flag_reg[13]
        zero_flag == flag_reg[14]
        overflow_flag == flag_reg[15]
        sign_flag == flag_reg[16]
    IN CASE jmp_spec = "jmp" -> TRUE
         [] jmp_spec = "jc" -> operands_values[1] = Ones(16)
         [] jmp_spec = "je" -> zero_flag = 1
         [] jmp_spec = "jne" -> zero_flag # 1
         [] jmp_spec = "jg" -> sign_flag = overflow_flag /\ zero_flag # 1
         [] jmp_spec = "jge" -> sign_flag = overflow_flag
         [] jmp_spec = "jl" -> sign_flag # overflow_flag
         [] jmp_spec = "jle" -> sign_flag # overflow_flag \/ zero_flag = 1
         [] OTHER -> FALSE

execute_jmp(s, operands_aliases, operands_values) ==
    LET jmp_spec == instructions_json[s.isa][ToInt(s.opcode)].name
        num_len == IF IsImm(operands_aliases[1]) /\ s.isa = "risc"
                   THEN ImmLen[operands_aliases[1]] ELSE 16
        last_alias == operands_aliases[Len(operands_aliases)]
    IN IF jmp_spec = "jc" /\ operands_values = <<>> THEN Go(Raise(s, "IndexError"), TRUE)
       ELSE IF ~should_jump(jmp_spec, s.registers["FR"], operands_values) THEN Go(s, TRUE)
       ELSE IF operands_aliases = <<>> THEN Go(Raise(s, "IndexError"), TRUE)
       ELSE IF s.isa = "risc" /\ operands_aliases[1] = "imm" THEN Go(Raise(s, "ValueError"), TRUE)
       ELSE IF s.isa \in {"risc", "cisc"} THEN
            (IF operands_values = <<>> THEN Go(Raise(s, "IndexError"), TRUE)
             ELSE Go(jump_by(s, twos_complement(ToInt(operands_values[1]), num_len)), FALSE))
       ELSE IF StartsWithTos(last_alias) \/ last_alias \in {"acc", "regoff"} THEN
            (IF operands_values = <<>> THEN Go(Raise(s, "IndexError"), TRUE)
             ELSE Go(jump_by(s, twos_complement(ToInt(operands_values[Len(operands_values)]),
                                                num_len)), FALSE))
       ELSE IF s.long_immediate_result = <<>> THEN Go(Raise(s, "AttributeError"), TRUE)
       ELSE Go(jump_by(s, twos_complement(ToInt(s.long_immediate_result), num_len)), FALSE)

execute_enter(s, operands_values) ==
    LET s1 == IF HasReg(s, "BP") THEN push_stack(s, s.registers["BP"]) ELSE Raise(s, "KeyError")
        s2 == reg_write_data(s1, "BP", s1.registers["SP"])
    IN IF operands_values = <<>> THEN Raise(s, "IndexError")
       ELSE IF ~Ok(s1) THEN s1
       ELSE reg_write_int(s2, "SP", RegInt(s2, "SP") - ToInt(operands_values[1]))

\* leave without its `mov %sp, %bp`: BP is popped from wherever SP points
execute_leave_without_mov(s) ==
    LET r == pop_stack(s)
    IN IF ~Ok(r.st) THEN r.st ELSE reg_write_data(r.st, "BP", r.val)

execute_leave(s) ==
    LET s1 == IF HasReg(s, "BP") /\ HasReg(s, "SP")
              THEN reg_write_data(s, "SP", s.registers["BP"]) ELSE Raise(s, "KeyError")
        r == pop_stack(s1)
    IN IF ~Ok(r.st) THEN r.st ELSE reg_write_data(r.st, "BP", r.val)

\* writing a value to the result destination: data memory (and TOS) or a register
write_result(s, d, value) ==
    IF ~Ok(s) THEN s
    ELSE IF d.memory_write_access THEN
         LET s1 == data_write(s, d.result_destination.addr * 8, value)
         IN IF d.tos_push THEN reg_write_int(s1, "TOS", d.result_destination.addr + 2) ELSE s1
    ELSE IF d.result_destination.kind = "register"
         THEN reg_write_data(s, d.result_destination.ref, value)
    ELSE Raise(s, "AttributeError")

execute_stackpop(s, d) ==
    LET r == pop_stack(s) IN write_result(r.st, d, r.val)

\* out that passes its first operand, the port number, to the device
execute_out_first_operand(s, d, operands_values) ==
    IF operands_values = <<>> THEN Raise(s, "IndexError")
    ELSE IF d.result_destination.kind # "port" THEN Raise(s, "AttributeError")
    ELSE out_shell(s, operands_values[1])

execute_out(s, d, operands_values) ==
    IF operands_values = <<>> THEN Raise(s, "IndexError")
    ELSE IF d.result_destination.kind # "port" THEN Raise(s, "AttributeError")
    ELSE out_shell(s, operands_values[Len(operands_values)])

execute_in(s, d) ==
    [s EXCEPT !.is_input_active = TRUE,
              !.input_attrs = [set |-> TRUE,
                               input_result_destination |-> d.result_destination,
                               memory_write_access |-> d.memory_write_access,
                               tos_push |-> d.tos_push]]

\* a swap that writes the second word first
execute_swap_same_order(s, d, operands_values) ==
    IF Len(operands_values) < 2 THEN Raise(s, "IndexError")
    ELSE LET s1 == data_write(s, d.result_destination.addr * 8, operands_values[2])
             s2 == data_write(s1, d.result_destination.addr * 8 + 16, operands_values[1])
         IN reg_write_int(s2, "TOS", d.result_destination.addr + 4)

execute_swap(s, d, operands_values) ==
    IF Len(operands_values) < 2 THEN Raise(s, "IndexError")
    ELSE LET s1 == data_write(s, d.result_destination.addr * 8, operands_values[1])
             s2 == data_write(s1, d.result_destination.addr * 8 + 16, operands_values[2])
         IN reg_write_int(s2, "TOS", d.result_destination.addr + 4)

execute_alu(s, d, operands_values) ==
    LET name == instructions_json[s.isa][ToInt(s.opcode)].name
        r == alu(name, operands_values, s.registers["FR"])
    IN IF name \notin functions_dictionary THEN Raise(s, "KeyError")
       ELSE IF Len(operands_values) < AluArity(name) THEN Raise(s, "IndexError")
       ELSE write_result([s EXCEPT !.registers["FR"] = r.fr], d, r.val)

operands_aliases_of(s) ==
    LET entry == instructions_json[s.isa][ToInt(s.opcode)]
    IN IF s.isa \in {"risc", "cisc"} THEN entry.list
       ELSE IF s.isa = "stack" THEN Tail(entry.list)
       ELSE entry.list

\* the branch of execute for the result type, on the operands and the destination d
execute_branch(d, res_type, operands_aliases, operands_values) ==
       IF ~Ok(d.st) THEN Go(d.st, TRUE)
       ELSE CASE res_type = "call" -> execute_call(d.st, operands_aliases, operands_values)
              [] res_type = "ret" -> execute_ret(d.st)
              [] res_type = "jmp" -> execute_jmp(d.st, operands_aliases, operands_values)
              [] res_type = "enter" -> Go(execute_enter(d.st, operands_values), TRUE)
              [] res_type = "leave" -> Go(execute_leave(d.st), TRUE)
              [] res_type = "stackpush" ->
                   Go(IF operands_values = <<>> THEN Raise(d.st, "IndexError")
                      ELSE push_stack(d.st, operands_values[1]), TRUE)
              [] res_type \in {"stackpop", "stackpopf"} -> Go(execute_stackpop(d.st, d), TRUE)
              [] res_type = "out" -> Go(execute_out(d.st, d, operands_values), TRUE)
              [] res_type = "in" -> Go(execute_in(d.st, d), TRUE)
              [] res_type = "swap" -> Go(execute_swap(d.st, d, operands_values), TRUE)
              [] OTHER -> Go(execute_alu(d.st, d, operands_values), TRUE)

\* the destination is determined in the state o.st the operand fetch left
execute_operands(s, start_point, operands_aliases, o) ==
    execute_branch(determine_result_dest(o.st, start_point, operands_aliases),
                   instructions_json[s.isa][ToInt(s.opcode)].res_type,
                   operands_aliases, o.val)

execute(s) ==
    execute_operands(s, determine_start_point(s), operands_aliases_of(s),
                     add_operands(s, determine_start_point(s), operands_aliases_of(s), <<>>))

(***************************************************************************)
(* CPU.__execute_cycle: execute the fetched instruction and, unless it     *)
(* transferred control, move IP to the next instruction.                   *)
(***************************************************************************)
\* after execute returned x: program_pointer and IP move to the next instruction
\* when go_to_next_instruction is set
move_to_next(x) ==
    LET bytes_per_instruction ==
            instruction_sizes[x.st.isa][1] \div instruction_sizes[x.st.isa][3]
    IN IF ~Ok(x.st) THEN x
       ELSE IF x.go
       THEN Go(reg_write_int([x.st EXCEPT !.program_pointer = @ + 1], "IP",
                             RegInt(x.st, "IP") + bytes_per_instruction
                               + x.st.additional_jump), TRUE)
       ELSE x

execute_cycle(s) ==
    IF ToInt(s.opcode) \notin DOMAIN instructions_json[s.isa]
    THEN Go(Raise(s, "KeyError"), TRUE)
    ELSE move_to_next(IF instructions_json[s.isa][ToInt(s.opcode)].name = "nop"
                      THEN Go(s, TRUE) ELSE execute(s))

(***************************************************************************)
(* CPU.__update_devices: a memory-mapped shell copies its window of data   *)
(* memory.                                                                 *)
(***************************************************************************)
update_devices(s) ==
    IF ~Ok(s) THEN s
    ELSE IF s.io_arch = "mmio"
    THEN [s EXCEPT !.shell.state = MemRead(s.data_memory, shell_start * 8, shell_end * 8)]
    ELSE s

(***************************************************************************)
(* CPU.web_next_instruction: one step.  The result tells whether a cycle   *)
(* was executed and whether it asked to go to the next instruction.        *)
(***************************************************************************)
Stp(s, ran, go) == [st |-> s, ran |-> ran, go |-> go]

\* after the cycle returned x: the devices are updated and the next instruction is fetched
\* the end of a step without the refresh of the memory-mapped devices
fetch_next_without_update(x) == Stp(read_instruction(x.st), TRUE, x.go)

fetch_next(x) == Stp(read_instruction(update_devices(x.st)), TRUE, x.go)

\* a halt test on the opcode width instead of the instruction width
is_halt_opcode_width(s) == s.instruction = Zeros(instruction_sizes[s.isa][2])

is_halt(s) == s.instruction = Zeros(instruction_sizes[s.isa][1])

\* a step that does not look at is_input_active
web_next_instruction_no_wait(s) ==
    IF is_halt(s) THEN Stp(s, FALSE, FALSE)
    ELSE IF s.first_instruction
    THEN Stp(read_instruction([s EXCEPT !.first_instruction = FALSE]), FALSE, FALSE)
    ELSE fetch_next(execute_cycle(s))

\* a step that runs a cycle on the first call as well
web_next_instruction_runs_first(s) ==
    IF is_halt(s) THEN Stp(s, FALSE, FALSE)
    ELSE IF s.is_input_active THEN Stp(s, FALSE, FALSE)
    ELSE fetch_next(execute_cycle([s EXCEPT !.first_instruction = FALSE]))

web_next_instruction(s) ==
    IF is_halt(s) THEN Stp(s, FALSE, FALSE)
    ELSE IF s.is_input_active THEN Stp(s, FALSE, FALSE)
    ELSE IF s.first_instruction
    THEN Stp(read_instruction([s EXCEPT !.first_instruction = FALSE]), FALSE, FALSE)
    ELSE fetch_next(execute_cycle(s))

(***************************************************************************)
(* CPU.input_finish: write the input to the destination saved by in.       *)
(***************************************************************************)
\* an input_finish that writes the value as given, without padding it to 16 bits
input_finish_unpadded(s, char) ==
    LET s1 == [s EXCEPT !.is_input_active = FALSE]
        a == s.input_attrs
    IN IF ~a.set THEN Raise(s1, "AttributeError")
       ELSE write_result(s1, [memory_write_access |-> a.memory_write_access,
                              result_destination |-> a.input_result_destination,
                              tos_push |-> a.tos_push], char)

input_finish(s, char) ==
    LET c == Rjust(char, 16, 0)
        s1 == [s EXCEPT !.is_input_active = FALSE]
        a == s.input_attrs
    IN IF ~a.set THEN Raise(s1, "AttributeError")
       ELSE write_result(s1, [memory_write_access |-> a.memory_write_access,
                              result_destination |-> a.input_result_destination,
                              tos_push |-> a.tos_push], c)

(***************************************************************************)
(* The assembler (src/modules/assembler.py, class Assembler).  Source text *)
(* and listing are sequences of characters, a character being a string of  *)
(* length one.  The assembler object is a record: its ISA, its table of    *)
(* encodings by mnemonic (which translate changes in place), the text it   *)
(* was last given, the listing it returned and the exception it raised.    *)
(***************************************************************************)
AsmISAs == {"risc", "cisc"}

\* str.split(sep)
RECURSIVE Split(_, _)
Split(str, sep) ==
    IF \A k \in 1..Len(str) : str[k] # sep THEN <<str>>
    ELSE LET k == CHOOSE j \in 1..Len(str) : str[j] = sep /\ \A h \in 1..(j - 1) : str[h] # sep
         IN <<SubSeq(str, 1, k - 1)>> \o Split(SubSeq(str, k + 1, Len(str)), sep)

\* the string of a sequence of characters
RECURSIVE Str(_)
Str(chars) == IF chars = <<>> THEN "" ELSE chars[1] \o Str(Tail(chars))

\* the characters '0' and '1' of a bit string
BitChars(bits) == [k \in 1..Len(bits) |-> IF bits[k] = 1 THEN "1" ELSE "0"]

\* the decimal digits, by value
DigitChars == <<"0", "1", "2", "3", "4", "5", "6", "7", "8", "9">>

\* Assembler.__is_number: int(n) succeeds on an optional sign and one or more digits
is_number(n) ==
    /\ n # <<>>
    /\ IF n[1] \in {"+", "-"}
       THEN Len(n) > 1 /\ \A k \in 2..Len(n) : \E d \in 1..10 : DigitChars[d] = n[k]
       ELSE \A k \in 1..Len(n) : \E d \in 1..10 : DigitChars[d] = n[k]

\* int(n) of a string that is a number
RECURSIVE IntOfDigits(_)
IntOfDigits(n) ==
    IF n = <<>> THEN 0
    ELSE 10 * IntOfDigits(SubSeq(n, 1, Len(n) - 1))
           + ((CHOOSE d \in 1..10 : DigitChars[d] = n[Len(n)]) - 1)

\* int that reads the digits and drops the sign
int_unsigned(n) == IF n[1] \in {"-", "+"} THEN IntOfDigits(Tail(n)) ELSE IntOfDigits(n)

int(n) == IF n[1] = "-" THEN 0 - IntOfDigits(Tail(n))
          ELSE IF n[1] = "+" THEN IntOfDigits(Tail(n))
          ELSE IntOfDigits(n)

\* self.instructions[name]: the encodings [opcode, types] of a mnemonic in table order
RECURSIVE encodings(_, _, _)
encodings(i, name, from) ==
    LET ks == {k \in DOMAIN instructions_json[i] : k >= from /\ instructions_json[i][k].name = name}
        k0 == CHOOSE k \in ks : \A h \in ks : k <= h
    IN IF ks = {} THEN <<>>
       ELSE <<[opcode |-> BitChars(Rjust(Bin(k0), instruction_sizes[i][2], 0)),
               types |-> instructions_json[i][k0].list]>> \o encodings(i, name, k0 + 1)

asm_instructions(i) ==
    [name \in {instructions_json[i][k].name : k \in DOMAIN instructions_json[i]} |->
        encodings(i, name, 0)]

\* self.register_names: the code of every register name
asm_register_names ==
    [i \in AsmISAs |->
        [name \in {register_codes[i][c] : c \in DOMAIN register_codes[i]} |->
            BitChars(Rjust(Bin(CHOOSE c \in DOMAIN register_codes[i] :
                                    register_codes[i][c] = name), 3, 0))]]

\* Assembler.__valid_type
valid_type(i, assembly_op, op_type) ==
    CASE op_type = "reg" ->
           /\ assembly_op # <<>> /\ assembly_op[1] = "%"
           /\ Str(Tail(assembly_op)) \in DOMAIN asm_register_names[i]
      [] IsImm(op_type) ->
           assembly_op # <<>> /\ assembly_op[1] = "$" /\ is_number(Tail(assembly_op))
      [] op_type = "memreg" ->
           /\ Len(assembly_op) >= 2
           /\ assembly_op[1] = "[" /\ assembly_op[Len(assembly_op)] = "]"
           /\ Len(assembly_op) >= 3 /\ assembly_op[2] = "%"
           /\ Str(SubSeq(assembly_op, 3, Len(assembly_op) - 1)) \in DOMAIN asm_register_names[i]
      [] OTHER -> FALSE

\* __encode_operands that takes the lower end of the range of an immediate
encode_operand_inclusive(i, operand, op_type) ==
    IF ~valid_type(i, operand, op_type) 
    THEN [err |-> "AssemblerError", msg |-> "Provide valid operands for this instruction", line |-> <<>>]
    ELSE CASE op_type = "reg" ->
                [err |-> "none", msg |-> "", line |-> asm_register_names[i][Str(Tail(operand))]]
           [] op_type = "memreg" ->
                [err |-> "none", msg |-> "",
                 line |-> asm_register_names[i][Str(SubSeq(operand, 3, Len(operand) - 1))]]
           [] OTHER ->
                IF op_type \notin DOMAIN ImmLen THEN [err |-> "ValueError", msg |-> "", line |-> <<>>]
                ELSE IF ~(0 - Pow2(ImmLen[op_type] - 1) <= int(Tail(operand))
                          /\ int(Tail(operand)) < Pow2(ImmLen[op_type] - 1))
                THEN [err |-> "AssemblerError", msg |-> "Immediate constant provided too big",
                      line |-> <<>>]
                ELSE [err |-> "none", msg |-> "",
                      line |-> BitChars(Rjust(Bin(twos_complement(int(Tail(operand)),
                                                                  ImmLen[op_type])),
                                              ImmLen[op_type], 0))]

\* the body of the loop of __encode_operands for one operand
encode_operand(i, operand, op_type) ==
    IF ~valid_type(i, operand, op_type) 
    THEN [err |-> "AssemblerError", msg |-> "Provide valid operands for this instruction", line |-> <<>>]
    ELSE CASE op_type = "reg" ->
                [err |-> "none", msg |-> "", line |-> asm_register_names[i][Str(Tail(operand))]]
           [] op_type = "memreg" ->
                [err |-> "none", msg |-> "",
                 line |-> asm_register_names[i][Str(SubSeq(operand, 3, Len(operand) - 1))]]
           [] OTHER ->
                IF op_type \notin DOMAIN ImmLen THEN [err |-> "ValueError", msg |-> "", line |-> <<>>]
                ELSE IF ~(0 - Pow2(ImmLen[op_type] - 1) < int(Tail(operand))
                          /\ int(Tail(operand)) < Pow2(ImmLen[op_type] - 1))
                THEN [err |-> "AssemblerError", msg |-> "Immediate constant provided too big",
                      line |-> <<>>]
                ELSE [err |-> "none", msg |-> "",
                      line |-> BitChars(Rjust(Bin(twos_complement(int(Tail(operand)),
                                                                  ImmLen[op_type])),
                                              ImmLen[op_type], 0))]

\* Assembler.__encode_operands
RECURSIVE encode_from(_, _, _, _, _)
encode_next(i, operands, types, index, binary_line, r) ==
    IF r.err # "none" THEN r
    ELSE encode_from(i, operands, types, index + 1, binary_line \o r.line)

encode_from(i, operands, types, index, binary_line) ==
    IF index > Len(operands) 
    THEN [err |-> "none", msg |-> "", line |-> Ljust(binary_line, instruction_sizes[i][1], "0")]
    ELSE encode_next(i, operands, types, index, binary_line,
                     encode_operand(i, operands[index], types[index]))

encode_operands(i, operands, instruction_info) ==
    IF Len(operands) # Len(instruction_info.types) 
    THEN [err |-> "AssemblerError", msg |-> "Provide valid operands for this instruction", line |-> <<>>]
    ELSE encode_from(i, operands, instruction_info.types, 1, instruction_info.opcode)

\* the truncation that does not look at the length of the stored opcode
truncate_opcode_always(name, instruction_info) ==
    IF name \in {"mov_low", "mov_high"}
    THEN [instruction_info EXCEPT !.opcode = SubSeq(@, 1, Len(@) - 1)]
    ELSE instruction_info

\* low and high byte moves have 5-bit opcodes: the stored opcode loses its last bit
truncate_opcode(name, instruction_info) ==
    IF name \in {"mov_low", "mov_high"} /\ Len(instruction_info.opcode) # 5
    THEN [instruction_info EXCEPT !.opcode = SubSeq(@, 1, Len(@) - 1)]
    ELSE instruction_info

\* the loop of translate over the encodings of a mnemonic, from encoding k on
RECURSIVE try_encodings(_, _, _, _, _)
\* the loop that gives up at the first encoding that does not fit
try_result_gives_up(a, name, operands, instructions, k, r) ==
    IF r.err = "none"
    THEN [instructions |-> instructions, err |-> "none", msg |-> "", line |-> r.line]
    ELSE [instructions |-> instructions, err |-> r.err, msg |-> r.msg, line |-> <<>>]

try_result(a, name, operands, instructions, k, r) ==
    IF r.err = "none"
    THEN [instructions |-> instructions, err |-> "none", msg |-> "", line |-> r.line]
    ELSE IF r.err = "AssemblerError" THEN try_encodings(a, name, operands, instructions, k + 1)
    ELSE [instructions |-> instructions, err |-> r.err, msg |-> r.msg, line |-> <<>>]

try_encodings(a, name, operands, instructions, k) ==
    IF k > Len(instructions[name])
    THEN [instructions |-> instructions, err |-> "AssemblerError",
          msg |-> "Provide valid operands for this instruction", line |-> <<>>]
    ELSE try_result(a, name, operands,
                    [instructions EXCEPT ![name][k] = truncate_opcode(name, @)], k,
                    encode_operands(a.isa, operands, truncate_opcode(name, instructions[name][k])))

\* the operands of a line with the last character of every operand but the last removed
strip_commas(operands) ==
    [ind \in 1..Len(operands) |->
        IF ind < Len(operands) THEN SubSeq(operands[ind], 1, Len(operands[ind]) - 1)
        ELSE operands[ind]]

\* translate, the body of the loop over the lines, after the commas
encode_line(a, assembly_instruction, operands) ==
    IF assembly_instruction \notin DOMAIN a.instructions
    THEN [instructions |-> a.instructions, err |-> "AssemblerError", msg |-> "Not valid opcode",
          line |-> <<>>]
    ELSE IF Len(a.instructions[assembly_instruction]) = 1
    THEN [instructions |-> a.instructions,
          msg |-> encode_operands(a.isa, operands, a.instructions[assembly_instruction][1]).msg,
          err |-> encode_operands(a.isa, operands, a.instructions[assembly_instruction][1]).err,
          line |-> encode_operands(a.isa, operands, a.instructions[assembly_instruction][1]).line]
    ELSE try_encodings(a, assembly_instruction, operands, a.instructions, 1)

\* translate that takes a comma off an operand that has one and asks for none
translate_line_lenient(a, line) ==
    encode_line(a, Str(Head(Split(line, " "))),
                [ind \in 1..(Len(Split(line, " ")) - 1) |->
                    LET operand == Split(line, " ")[ind + 1]
                    IN IF ind < Len(Split(line, " ")) - 1 /\ operand # <<>>
                          /\ operand[Len(operand)] = ","
                       THEN SubSeq(operand, 1, Len(operand) - 1)
                       ELSE operand])

translate_line(a, line) ==
    IF \E ind \in 1..(Len(Split(line, " ")) - 2) :
          LET operand == Split(line, " ")[ind + 1]
          IN operand = <<>> \/ operand[Len(operand)] # ","
    THEN [instructions |-> a.instructions, err |-> "AssemblerError",
          msg |-> "Provide valid operands for this instruction (commas included)",
          line |-> <<>>]
    ELSE encode_line(a, Str(Head(Split(line, " "))), strip_commas(Tail(Split(line, " "))))

\* Assembler.translate: the listing of a text, or the exception of its first bad line
RECURSIVE translate_lines(_, _, _, _)
\* translate that gives back the lines before the bad one
translate_rest_partial(a, lines, k, binary_code, r) ==
    IF r.err # "none"
    THEN [a EXCEPT !.instructions = r.instructions,
                   !.error = r.err, !.message = r.msg, !.binary_code = binary_code]
    ELSE translate_lines([a EXCEPT !.instructions = r.instructions], lines, k + 1,
                         binary_code \o r.line \o <<"\n">>)

translate_rest(a, lines, k, binary_code, r) ==
    IF r.err # "none"
    THEN [a EXCEPT !.instructions = r.instructions,
                   !.error = r.err, !.message = r.msg, !.binary_code = <<>>]
    ELSE translate_lines([a EXCEPT !.instructions = r.instructions], lines, k + 1,
                         binary_code \o r.line \o <<"\n">>)

translate_lines(a, lines, k, binary_code) ==
    IF k > Len(lines) THEN [a EXCEPT !.error = "none", !.message = "", !.binary_code = binary_code]
    ELSE translate_rest(a, lines, k, binary_code, translate_line(a, lines[k]))

translate(a, text) == translate_lines([a EXCEPT !.text = text], Split(text, "\n"), 1, <<>>)

\* no assembler
NoAsm == [isa |-> "none", instructions |-> <<>>, text |-> <<>>, binary_code |-> <<>>,
          error |-> "none", message |-> "", written |-> FALSE]

(***************************************************************************)
(* Listings.  A listing is the sequence of the lines of program_text;      *)
(* the text the assembler emits ends with a newline, so the last piece of  *)
(* program_text.split('\n') is empty.                                      *)
(***************************************************************************)
Field(v, w) == Rjust(Bin(IF v < 0 THEN v + Pow2(w) ELSE v), w, 0)

RECURSIVE Concat(_)
Concat(ls) == IF ls = <<>> THEN <<>> ELSE ls[1] \o Concat(Tail(ls))

RiscW(op, fields) == Ljust(Field(op, 6) \o fields, 16, 0)

CiscW(op, regs, imms) ==
    Field(op, 8)
      \o (IF regs = <<>> THEN <<>> ELSE Ljust(Concat([i \in 1..Len(regs) |-> Field(regs[i], 3)]), 8, 0))
      \o Concat([i \in 1..Len(imms) |-> Field(imms[i], 16)])

StackW(op, imm) == Field(op, 6) \o (IF op >= 32 THEN Field(imm, 12) ELSE <<>>)

AccW(op, imm) == Field(op, 8) \o (IF op >= 128 THEN Field(imm, 16) ELSE <<>>)

\* the conditional and unconditional jump mnemonics with an immediate target
JumpNames == <<"jmp", "je", "jne", "jg", "jge", "jl", "jle">>

FlagValues == 0..15

RiscAlphabet ==
    { RiscW(1, <<>>),                              \* nop
      RiscW(3, Field(0, 3) \o Field(5, 7)),        \* mov %R00, $5
      RiscW(2, Field(6, 3) \o Field(0, 3)),        \* mov %IP, %R00
      RiscW(7, Field(0, 3)),                       \* push %R00
      RiscW(8, Field(1, 3)),                       \* pop %R01
      RiscW(9, Field(1, 10)),                      \* call $1
      RiscW(9, Field(-1, 10)),                     \* call $-1
      RiscW(11, <<>>),                             \* ret
      RiscW(12, Field(2, 10)),                     \* jmp $2
      RiscW(15, Field(-1, 10)),                    \* jne $-1
      RiscW(20, Field(0, 3) \o Field(1, 7)),       \* in %R00, $1
      RiscW(21, Field(1, 7) \o Field(0, 3)),       \* out $1, %R00
      Field(1, 16) }                               \* zero opcode, non-zero operand bits

CiscAlphabet ==
    { CiscW(33, <<>>, <<>>),                       \* nop
      CiscW(129, <<0>>, <<5>>),                    \* mov %R00, $5
      CiscW(97, <<6, 0>>, <<>>),                   \* mov %IP, %R00
      CiscW(1, <<0>>, <<>>),                       \* push %R00
      CiscW(2, <<1>>, <<>>),                       \* pop %R01
      CiscW(65, <<>>, <<1>>),                      \* call $1
      CiscW(65, <<>>, <<-1>>),                     \* call $-1
      CiscW(34, <<>>, <<>>),                       \* ret
      CiscW(66, <<>>, <<2>>),                      \* jmp $2
      CiscW(68, <<>>, <<-1>>),                     \* jne $-1
      CiscW(73, <<>>, <<4>>),                      \* enter $4
      CiscW(35, <<>>, <<>>),                       \* leave
      CiscW(130, <<0>>, <<1>>),                    \* in %R00, $1
      CiscW(131, <<0>>, <<1>>) }                   \* out $1, %R00

StackAlphabet ==
    { StackW(1, 0),                                \* nop
      StackW(33, 5),                               \* mov $5
      StackW(2, 0),                                \* add
      StackW(5, 0),                                \* push
      StackW(6, 0),                                \* pop
      StackW(7, 0),                                \* popf
      StackW(34, 1),                               \* call $1
      StackW(34, -1),                              \* call $-1
      StackW(10, 0),                               \* ret
      StackW(35, 2),                               \* jmp $2
      StackW(37, -1),                              \* jne $-1
      StackW(12, 0),                               \* swap
      StackW(42, 1),                               \* in $1
      StackW(43, 1) }                              \* out $1

AccAlphabet ==
    { AccW(1, 0),                                  \* nop
      AccW(129, 5),                                \* mov $5
      AccW(130, 3),                                \* add $3
      AccW(3, 0),                                  \* push
      AccW(4, 0),                                  \* pop
      AccW(10, 0),                                 \* popf
      AccW(133, 1),                                \* call $1
      AccW(133, -1),                               \* call $-1
      AccW(6, 0),                                  \* ret
      AccW(134, 2),                                \* jmp $2
      AccW(136, -1),                               \* jne $-1
      AccW(8, 0),                                  \* store
      AccW(141, 1),                                \* in $1
      AccW(142, 1) }                               \* out $1

Alphabet(i) == CASE i = "risc" -> RiscAlphabet [] i = "cisc" -> CiscAlphabet
                 [] i = "stack" -> StackAlphabet [] i = "accumulator" -> AccAlphabet

\* a jump on every flag setting: load FR with f, then the k-th jump mnemonic over one nop
FlagProgram(i, k, f) ==
    CASE i = "risc" -> << RiscW(3, Field(7, 3) \o Field(f, 7)), RiscW(11 + k + (IF k > 1 THEN 1 ELSE 0), Field(2, 10)),
                          RiscW(1, <<>>), RiscW(1, <<>>) >>
      [] i = "cisc" -> << CiscW(129, <<7>>, <<f>>), CiscW(65 + k, <<>>, <<2>>),
                          CiscW(33, <<>>, <<>>), CiscW(33, <<>>, <<>>) >>
      [] i = "stack" -> << StackW(33, f), StackW(5, 0), StackW(7, 0), StackW(34 + k, 2),
                           StackW(1, 0), StackW(1, 0) >>
      [] i = "accumulator" -> << AccW(129, f), AccW(3, 0), AccW(10, 0), AccW(133 + k, 2),
                                 AccW(1, 0), AccW(1, 0) >>

\* jc on an operand of all ones and on another operand
CarryPrograms(i) ==
    CASE i = "risc" -> { << RiscW(3, Field(1, 3) \o Field(1, 7)), RiscW(5, Field(0, 3) \o Field(1, 3)),
                            RiscW(13, Field(0, 3)), RiscW(1, <<>>) >> }
      [] i = "cisc" -> { << CiscW(129, <<0>>, <<v>>), CiscW(3, <<0>>, <<>>), CiscW(33, <<>>, <<>>) >>
                         : v \in {-1, 1} }
      [] i = "stack" -> { << StackW(33, v), StackW(11, 0), StackW(1, 0) >> : v \in {-1, 1} }
      [] i = "accumulator" -> { << AccW(129, v), AccW(7, 0), AccW(1, 0) >> : v \in {-1, 1} }

\* subroutine calls forward and backward, over instructions of different sizes
CallPrograms(i) ==
    CASE i = "risc" ->
           { << RiscW(9, Field(2, 10)), RiscW(3, Field(0, 3) \o Field(9, 7)), Zeros(16),
                RiscW(3, Field(0, 3) \o Field(3, 7)), RiscW(11, <<>>) >>,
             << RiscW(9, Field(3, 10)), RiscW(3, Field(0, 3) \o Field(9, 7)), Zeros(16),
                RiscW(3, Field(0, 3) \o Field(3, 7)), RiscW(11, <<>>) >>,
             << RiscW(9, Field(2, 10)), RiscW(3, Field(0, 3) \o Field(9, 7)), RiscW(11, <<>>) >>,
             << RiscW(12, Field(2, 10)), RiscW(11, <<>>), RiscW(9, Field(-1, 10)), RiscW(1, <<>>) >> }
      [] i = "cisc" ->
           { << CiscW(65, <<>>, <<2>>), CiscW(129, <<0>>, <<9>>), CiscW(34, <<>>, <<>>) >>,
             << CiscW(66, <<>>, <<2>>), CiscW(34, <<>>, <<>>), CiscW(65, <<>>, <<-1>>),
                CiscW(33, <<>>, <<>>) >> }
      [] i = "stack" ->
           { << StackW(34, 2), StackW(33, 9), StackW(10, 0) >>,
             << StackW(35, 2), StackW(10, 0), StackW(34, -1), StackW(1, 0) >> }
      [] i = "accumulator" ->
           { << AccW(133, 2), AccW(129, 9), AccW(6, 0) >>,
             << AccW(134, 2), AccW(6, 0), AccW(133, -1), AccW(1, 0) >> }

\* stack frames of CISC: enter and leave after a push, with a frame of no
\* bytes, and nested
FramePrograms(i) ==
    IF i # "cisc" THEN {}
    ELSE { << CiscW(1, <<0>>, <<>>), CiscW(73, <<>>, <<n>>), CiscW(35, <<>>, <<>>) >> : n \in {0, 4} }
           \cup { << CiscW(73, <<>>, <<4>>), CiscW(73, <<>>, <<6>>), CiscW(35, <<>>, <<>>),
                    CiscW(35, <<>>, <<>>) >> }

\* a CISC listing that writes into itself: SP is set behind the two nops that
\* end the listing and a push of R00 (zero, or 0x2222 = two rets) overwrites them
OverwritePrograms(i) ==
    IF i # "cisc" THEN {}
    ELSE { << CiscW(129, <<4>>, <<520>>), CiscW(1, <<0>>, <<>>),
              CiscW(33, <<>>, <<>>), CiscW(33, <<>>, <<>>) >>,
           << CiscW(129, <<0>>, <<8738>>), CiscW(129, <<4>>, <<524>>), CiscW(1, <<0>>, <<>>),
              CiscW(33, <<>>, <<>>), CiscW(33, <<>>, <<>>) >> }

\* listings whose operands differ.  CISC: two registers with different values
\* in one pack, followed by a word of style 110 (one register, two long
\* immediates) or of style 101 (two registers, one long immediate); the
\* opcodes 193 and 161 are in no table and are only fetched; mov %BP, $5 and
\* push %R00; pop %BP, whose destination is the register of code 5.  Stack:
\* two or three different words on the register stack, then swap.
OperandPrograms(i) ==
    CASE i = "cisc" ->
           { << CiscW(129, <<0>>, <<5>>), CiscW(129, <<1>>, <<3>>), CiscW(op, <<0, 1>>, <<>>), w >> :
               op \in {97, 99, 100},
               w \in { CiscW(193, <<1>>, <<7, 9>>), CiscW(161, <<1, 2>>, <<7>>) } }
             \cup { << CiscW(129, <<5>>, <<5>>), CiscW(33, <<>>, <<>>) >>,
                    << CiscW(1, <<0>>, <<>>), CiscW(2, <<5>>, <<>>) >> }
      [] i = "stack" ->
           { << StackW(33, 5), StackW(33, 3), StackW(12, 0), StackW(12, 0) >>,
             << StackW(33, 7), StackW(33, 5), StackW(33, 3), StackW(12, 0), StackW(2, 0) >> }
      [] OTHER -> {}

\* nested subroutine calls: call A, call B inside A, the ret of B, the ret of
\* A.  In the first listing the subroutines follow their callers (0: call A,
\* 1: nop, 2: A: call B, 3: ret, 4: B: ret); in the second they precede them
\* (0: jmp main, 1: B: ret, 2: A: call B, 3: ret, 4: main: call A, 5: nop).
NestedCalls(i) ==
    LET call(n) == CASE i = "risc" -> RiscW(9, Field(n, 10))
                     [] i = "cisc" -> CiscW(65, <<>>, <<n>>)
                     [] i = "stack" -> StackW(34, n)
                     [] OTHER -> AccW(133, n)
        jmp(n) == CASE i = "risc" -> RiscW(12, Field(n, 10))
                    [] i = "cisc" -> CiscW(66, <<>>, <<n>>)
                    [] i = "stack" -> StackW(35, n)
                    [] OTHER -> AccW(134, n)
        ret == CASE i = "risc" -> RiscW(11, <<>>)
                 [] i = "cisc" -> CiscW(34, <<>>, <<>>)
                 [] i = "stack" -> StackW(10, 0)
                 [] OTHER -> AccW(6, 0)
        nop == CASE i = "risc" -> RiscW(1, <<>>)
                 [] i = "cisc" -> CiscW(33, <<>>, <<>>)
                 [] i = "stack" -> StackW(1, 0)
                 [] OTHER -> AccW(1, 0)
    IN << <<call(2), nop, call(2), ret, ret>>,
          <<jmp(4), ret, call(-1), ret, call(-2), nop>> >>

\* every one- and two-instruction listing over the alphabet, and the listings above
Programs(i) ==
    { <<a>> : a \in Alphabet(i) }
      \cup { <<a, b>> : a \in Alphabet(i), b \in Alphabet(i) }
      \cup { FlagProgram(i, k, f) : k \in 1..Len(JumpNames), f \in FlagValues }
      \cup CarryPrograms(i) \cup CallPrograms(i) \cup FramePrograms(i)
      \cup OverwritePrograms(i) \cup OperandPrograms(i)
      \cup { NestedCalls(i)[k] : k \in 1..2 }

ISAs == {"stack", "accumulator", "risc", "cisc"}

\* the listings a CPU is constructed from, by ISA
Listings == [i \in ISAs |-> Programs(i)]

Architectures == {"neumann", "harvard", "harvardm"}

\* the values the presenter passes to input_finish
InputValues == { <<1, 0, 0, 0, 0, 0, 1>>, Word(258) }

(***************************************************************************)
(* CPU.__init__, __create_registers and __load_program: the state after    *)
(* construction from a listing.                                            *)
(***************************************************************************)
create_registers(i) ==
    [r \in register_names[i] |->
        CASE r = "TOS" -> Word(tos_start)
          [] r \in {"SP", "BP"} -> Word(stack_start)
          [] r = "IP" -> Word(program_start)
          [] OTHER -> Zeros(16)]

\* a load that takes program_start for a bit address
load_program_at_bit(i, lines) == MemWrite({}, program_start, Concat(lines))

load_program(i, lines) == MemWrite({}, program_start * instruction_sizes[i][3], Concat(lines))

size_list(i, lines) ==
    [k \in 1..(Len(lines) + 1) |->
        IF k <= Len(lines) THEN Len(lines[k]) \div instruction_sizes[i][3] ELSE 0]

Init ==
    \E i \in ISAs, a \in Architectures, io \in {"mmio", "special"} :
      \E lines \in Programs(i) :
        /\ isa = i
        /\ architecture = a
        /\ io_arch = io
        /\ registers = create_registers(i)
        /\ program_memory = load_program(i, lines)
        /\ data_memory = IF a = "harvard" THEN {} ELSE load_program(i, lines)
        /\ instruction = <<>>
        /\ opcode = <<>>
        /\ long_registers = <<>>
        /\ long_register_result = <<>>
        /\ long_immediates = <<>>
        /\ long_immediate_result = <<>>
        /\ additional_jump = 0
        /\ instr_size_list = size_list(i, lines)
        /\ program_pointer = 0
        /\ first_instruction = TRUE
        /\ is_input_active = FALSE
        /\ input_attrs = [set |-> FALSE, input_result_destination |-> NoDest,
                          memory_write_access |-> FALSE, tos_push |-> FALSE]
        /\ shell = [out |-> <<>>, state |-> <<>>]
        /\ err = "none"
        /\ last_call = "init"
        /\ idle = "none"
        /\ exec = <<>>
        /\ steps = 0
        /\ inputs = 0
        /\ stack_ops = <<>>
        /\ asm = NoAsm
        /\ app = <<>>

Install(s) ==
    /\ isa' = s.isa
    /\ architecture' = s.architecture
    /\ io_arch' = s.io_arch
    /\ registers' = s.registers
    /\ data_memory' = s.data_memory
    /\ program_memory' = s.program_memory
    /\ instruction' = s.instruction
    /\ opcode' = s.opcode
    /\ long_registers' = s.long_registers
    /\ long_register_result' = s.long_register_result
    /\ long_immediates' = s.long_immediates
    /\ long_immediate_result' = s.long_immediate_result
    /\ additional_jump' = s.additional_jump
    /\ instr_size_list' = s.instr_size_list
    /\ program_pointer' = s.program_pointer
    /\ first_instruction' = s.first_instruction
    /\ is_input_active' = s.is_input_active
    /\ input_attrs' = s.input_attrs
    /\ shell' = s.shell
    /\ err' = s.err

(***************************************************************************)
(* What is remembered of an executed cycle: the instruction, the state it  *)
(* started from and whether it asked to go to the next instruction.  exec  *)
(* keeps the last two executed cycles, the latest last.                    *)
(***************************************************************************)
Cycle(s, go) ==
    LET known == ToInt(s.opcode) \in DOMAIN instructions_json[s.isa]
        entry == instructions_json[s.isa][ToInt(s.opcode)]
    IN [name |-> IF known THEN entry.name ELSE "?",
        res_type |-> IF known THEN entry.res_type ELSE "?",
        go |-> go,
        pp |-> s.program_pointer,
        ip |-> RegInt(s, "IP"),
        additional_jump |-> s.additional_jump,
        registers |-> s.registers,
        operands_values |-> IF known /\ entry.name # "nop"
                            THEN add_operands(s, determine_start_point(s),
                                              operands_aliases_of(s), <<>>).val
                            ELSE <<>>]

Remember(e, c) == IF Len(e) < 2 THEN Append(e, c) ELSE <<e[2], c>>

AllZero(b) == b # <<>> /\ \A i \in 1..Len(b) : b[i] = 0

\* why a call to step returns without executing a cycle, or "none" when it executes one
Idle == IF AllZero(instruction) THEN "halt"
        ELSE IF is_input_active THEN "input"
        ELSE IF first_instruction THEN "first"
        ELSE "none"

Step ==
    /\ err = "none"
    /\ steps < MaxSteps
    /\ \E r \in {web_next_instruction(State)} :
          /\ Install(r.st)
          /\ exec' = IF r.ran THEN Remember(exec, Cycle(State, r.go)) ELSE exec
    /\ last_call' = "step"
    /\ idle' = Idle
    /\ steps' = steps + 1
    /\ UNCHANGED <<inputs, stack_ops, asm, app>>

InputFinish ==
    /\ err = "none"
    /\ inputs < MaxInputs
    /\ \E v \in InputValues : Install(input_finish(State, v))
    /\ last_call' = "input_finish"
    /\ inputs' = inputs + 1
    /\ UNCHANGED <<idle, exec, steps, stack_ops, asm, app>>

Next == Step \/ InputFinish

Spec == Init /\ [][Next]_vars

(***************************************************************************)
(* The two stacks on their own: __push_stack and __pop_stack on the memory *)
(* stack, and on the stack ISA the write of a result through a TOS         *)
(* destination and the popping read __pop_tos(pop=True), applied in any    *)
(* order from stack pointers drawn from a set.  The variable stack_ops is   *)
(* the log of the operations: the word written or read, and the pointer    *)
(* before and after.                                                       *)
(***************************************************************************)
StackPointers == {0, 2, 600, 1024}

TosPointers == {256, 1020, 1022}

Words == {Word(258), Word(43690), Word(65535)}

\* data memory before the operations: empty, or ones around the stack pointers
Fillings ==
    { {},
      {b \in 0..(memory_size * 8 - 1) :
          b % 3 = 0 /\ \E p \in StackPointers \cup TosPointers : b \in (p * 8 - 32)..(p * 8 + 31)} }

Op(name, word, before, after, ok) ==
    [op |-> name, word |-> word, before |-> before, after |-> after, ok |-> ok]

InitStack ==
    \E i \in ISAs, a \in Architectures, sp \in StackPointers, tos \in TosPointers,
       m \in Fillings :
        /\ isa = i
        /\ architecture = a
        /\ io_arch = "special"
        /\ registers = [r \in register_names[i] |->
                           CASE r = "SP" -> Word(sp)
                             [] r = "TOS" -> Word(tos)
                             [] OTHER -> create_registers(i)[r]]
        /\ program_memory = m
        /\ data_memory = m
        /\ instruction = <<>>
        /\ opcode = <<>>
        /\ long_registers = <<>>
        /\ long_register_result = <<>>
        /\ long_immediates = <<>>
        /\ long_immediate_result = <<>>
        /\ additional_jump = 0
        /\ instr_size_list = <<0>>
        /\ program_pointer = 0
        /\ first_instruction = TRUE
        /\ is_input_active = FALSE
        /\ input_attrs = [set |-> FALSE, input_result_destination |-> NoDest,
                          memory_write_access |-> FALSE, tos_push |-> FALSE]
        /\ shell = [out |-> <<>>, state |-> <<>>]
        /\ err = "none"
        /\ last_call = "init"
        /\ idle = "none"
        /\ exec = <<>>
        /\ steps = 0
        /\ inputs = 0
        /\ stack_ops = <<>>
        /\ asm = NoAsm
        /\ app = <<>>

StackOp(s, name, word, reg) ==
    /\ Install(s)
    /\ last_call' = name
    /\ stack_ops' = Append(stack_ops, Op(name, word, RegInt(State, reg), RegInt(s, reg), Ok(s)))
    /\ UNCHANGED <<idle, exec, steps, inputs, asm, app>>

PushStack ==
    /\ err = "none" /\ Len(stack_ops) < MaxOps
    /\ \E w \in Words : StackOp(push_stack(State, w), "push_stack", w, "SP")

PopStack ==
    /\ err = "none" /\ Len(stack_ops) < MaxOps
    /\ LET r == pop_stack(State) IN StackOp(r.st, "pop_stack", r.val, "SP")

\* the result of `mov $imm` of the stack ISA, written through its TOS destination
PushTos ==
    /\ err = "none" /\ Len(stack_ops) < MaxOps /\ isa = "stack"
    /\ \E w \in Words :
         LET s == [State EXCEPT !.opcode = Field(33, 6)]
             d == determine_result_dest(s, determine_start_point(s), operands_aliases_of(s))
         IN StackOp([write_result(d.st, d, w) EXCEPT !.opcode = opcode], "push_tos", w, "TOS")

PopTos ==
    /\ err = "none" /\ Len(stack_ops) < MaxOps /\ isa = "stack"
    /\ LET r == pop_tos(State, FALSE, TRUE) IN StackOp(r.st, "pop_tos", r.val, "TOS")

NextStack == PushStack \/ PopStack \/ PushTos \/ PopTos

SpecStack == InitStack /\ [][NextStack]_vars

(***************************************************************************)
(* The assembler on its own: an Assembler for an ISA is given source       *)
(* texts, one call of translate after the other on the same object.        *)
(***************************************************************************)
\* str(v) of an integer
RECURSIVE Dec(_)
Dec(v) == IF v < 0 THEN <<"-">> \o Dec(0 - v)
          ELSE IF v < 10 THEN <<DigitChars[v + 1]>>
          ELSE Dec(v \div 10) \o <<DigitChars[(v % 10) + 1]>>

\* a source line: the mnemonic and the operands as written, joined by spaces
RECURSIVE SourceLine(_)
SourceLine(words) == IF Len(words) = 1 THEN words[1]
                     ELSE words[1] \o <<" ">> \o SourceLine(Tail(words))

\* the values around the two ends and in the middle of the range of an N-bit immediate
ImmValues(N) == {0 - Pow2(N - 1) - 1, 0 - Pow2(N - 1), 1 - Pow2(N - 1), 0 - Pow2(N - 2),
                 -1, 0, 1, Pow2(N - 2), Pow2(N - 1) - 1, Pow2(N - 1), Pow2(N - 1) + 1}

\* immediates as written: the values above, and texts that int() takes or refuses
ImmTexts(N) ==
    { <<"$">> \o Dec(v) : v \in ImmValues(N) }
      \cup { <<"$", "+", "5">>, <<"$", "0", "5">>, <<"$">>, <<"$", "-">>, <<"$", "5", "x">>,
             <<"5">>, <<"$", "5", ",">> }

\* the instructions with an immediate operand: the words before it and its width
ImmInstructions(i) ==
    IF i = "risc"
    THEN { [words |-> << <<"m", "o", "v">>, <<"%", "R", "0", "0", ",">> >>, N |-> 7],
           [words |-> << <<"j", "m", "p">> >>, N |-> 10],
           [words |-> << <<"m", "o", "v", "_", "l", "o", "w">>, <<"%", "R", "0", "0", ",">> >>,
            N |-> 8],
           [words |-> << <<"m", "o", "v", "_", "l", "o", "w">>, <<"%", "S", "P", ",">> >>,
            N |-> 8] }
    ELSE { [words |-> << <<"m", "o", "v">>, <<"%", "R", "0", "0", ",">> >>, N |-> 16],
           [words |-> << <<"e", "n", "t", "e", "r">> >>, N |-> 16] }

\* the source texts given to an assembler: single lines, and texts of two lines
SourceTexts ==
  [i \in AsmISAs |->
    LET first == { <<"%", "R", "0", "0", ",">>, <<"%", "R", "0", "0">>,
                   <<"[", "%", "R", "0", "0", "]", ",">>, <<"[", "%", "R", "0", "0", "]">>,
                   <<"%", "R", "0", "0", ",", ",">>, <<",">>, <<>> }
        last == { <<"%", "R", "0", "1">>, <<"%", "R", "0", "1", ",">>, <<"$", "5">>,
                  <<"[", "%", "R", "0", "1", "]">>, <<"%", "S", "P">> }
        two == { <<"m", "o", "v">>, <<"a", "d", "d">> }
    IN { SourceLine(<<m, x, y>>) : m \in two, x \in first, y \in last }
         \cup { SourceLine(<<m, x, y, <<"%", "R", "0", "2">> >>) :
                  m \in two, x \in {<<"%", "R", "0", "0", ",">>, <<"%", "R", "0", "0">>},
                  y \in {<<"%", "R", "0", "1", ",">>, <<"%", "R", "0", "1">>} }
         \cup UNION { { SourceLine(Append(e.words, t)) : t \in ImmTexts(e.N) } :
                       e \in ImmInstructions(i) }
         \cup { <<"n", "o", "p">>, <<"r", "e", "t">>, <<"f", "o", "o">>, <<"n", "o", "p", " ">>,
                <<"p", "u", "s", "h", " ", "%", "R", "0", "0">>, <<>> }
         \cup { <<"n", "o", "p", "\n", "r", "e", "t">>, <<"n", "o", "p", "\n">>,
                <<"n", "o", "p", "\n", "f", "o", "o">>,
                <<"n", "o", "p", "\n", "a", "d", "d", " ", "%", "R", "0", "0", " ",
                  "%", "R", "0", "1">>,
                <<"a", "d", "d", " ", "%", "R", "0", "0", ",", " ", "%", "R", "0", "1", "\n",
                  "n", "o", "p">> }]

\* the processor of these specifications: a CPU constructed from an empty listing
InitAsm ==
    \E i \in AsmISAs :
        /\ asm = [isa |-> i, instructions |-> asm_instructions(i), text |-> <<>>,
                  binary_code |-> <<>>, error |-> "none",
                  message |-> "", written |-> FALSE]
        /\ isa = i
        /\ architecture = "neumann"
        /\ io_arch = "special"
        /\ registers = create_registers(i)
        /\ program_memory = {}
        /\ data_memory = {}
        /\ instruction = <<>>
        /\ opcode = <<>>
        /\ long_registers = <<>>
        /\ long_register_result = <<>>
        /\ long_immediates = <<>>
        /\ long_immediate_result = <<>>
        /\ additional_jump = 0
        /\ instr_size_list = <<0>>
        /\ program_pointer = 0
        /\ first_instruction = TRUE
        /\ is_input_active = FALSE
        /\ input_attrs = [set |-> FALSE, input_result_destination |-> NoDest,
                          memory_write_access |-> FALSE, tos_push |-> FALSE]
        /\ shell = [out |-> <<>>, state |-> <<>>]
        /\ err = "none"
        /\ last_call = "init"
        /\ idle = "none"
        /\ exec = <<>>
        /\ steps = 0
        /\ inputs = 0
        /\ stack_ops = <<>>
        /\ app = <<>>

\* a text is translated and, as in __init__, the listing that translate returns is
\* written to the output file; an exception leaves before the file is opened
Translate ==
    /\ \E text \in SourceTexts[asm.isa] :
          \E r \in {translate(asm, text)} : asm' = [r EXCEPT !.written = (r.error = "none")]
    /\ last_call' = "translate"
    /\ UNCHANGED <<cpuVars, err, idle, exec, steps, inputs, stack_ops, app>>

SpecAsm == InitAsm /\ [][Translate]_vars

(***************************************************************************)
(* The presenter (src/website/app.py): the callbacks update_registers and  *)
(* update_flags of one session.  Both have the n_clicks of the buttons     *)
(* SAVE MANUAL CHANGES and UNDO MANUAL CHANGES among their inputs, so one   *)
(* click triggers both; each is a request of its own, and the two requests *)
(* of a click are served in any order and may interleave.  A callback is   *)
(* modelled in two steps: the test of the click counters against the       *)
(* counters stored in user_dict, then the branch the test chose.           *)
(* app.n_clicks are the counters of the buttons, app.stored the counters   *)
(* of user_dict, app.table the row of the registers table (a hex text for  *)
(* every register; the key of a cell is the register name followed by a    *)
(* colon, which the callback strips), app.flags the row of the flags       *)
(* table (the texts of CF, ZF, OF, SF), app.pc the position of each        *)
(* callback, app.applied the callbacks that took the save branch since the *)
(* last click and app.last the button of the last click.  The registers    *)
(* of the session's CPU are the variable registers.  A text is a sequence  *)
(* of characters.                                                          *)
(***************************************************************************)
\* bitarray.util.hex2ba: four bits for every hex digit of the text
hex2ba(value) ==
    LET digits == <<"0", "1", "2", "3", "4", "5", "6", "7",
                    "8", "9", "a", "b", "c", "d", "e", "f">>
    IN Concat([k \in 1..Len(value) |->
                  Field((CHOOSE d \in 1..16 : digits[d] = value[k]) - 1, 4)])

\* update_registers after its test: on the save branch the stored counter is
\* raised and every cell of the row is written to its register; then the
\* registers are rendered with tobytes().hex(), which fills the last byte
\* with zeros, and the rendering becomes the row of the table
update_registers(a, regs) ==
    LET digits == <<"0", "1", "2", "3", "4", "5", "6", "7",
                    "8", "9", "a", "b", "c", "d", "e", "f">>
        branch == a.pc["update_registers"]
        new == IF branch = "save"
               THEN [r \in DOMAIN regs |-> hex2ba(a.table[r])]
               ELSE regs
    IN [registers |-> new,
        app |-> [a EXCEPT
                   !.stored = IF branch \in {"save", "undo"}
                              THEN [@ EXCEPT ![branch] = a.n_clicks[branch]] ELSE @,
                   !.table = [r \in DOMAIN new |->
                                [k \in 1..(2 * ((Len(new[r]) + 7) \div 8)) |->
                                    digits[ToInt(SubSeq(Ljust(new[r], 8 * ((Len(new[r]) + 7) \div 8), 0),
                                                        4 * k - 3, 4 * k)) + 1]]],
                   !.applied = IF branch = "save" THEN @ \cup {"update_registers"} ELSE @,
                   !.pc["update_registers"] = "idle"]]

\* update_flags after its test: on the save branch the stored counter is
\* raised and the texts of the four cells, joined, are assigned to the slice
\* [12:16] of FR (a slice assignment: the slice is replaced by the bits,
\* however many they are)
update_flags(a, regs) ==
    LET branch == a.pc["update_flags"]
        text == a.flags[1] \o a.flags[2] \o a.flags[3] \o a.flags[4]
        bits == [k \in 1..Len(text) |-> IF text[k] = "1" THEN 1 ELSE 0]
        fr == regs["FR"]
    IN [registers |-> IF branch = "save"
                      THEN [regs EXCEPT !["FR"] = SubSeq(fr, 1, Min(12, Len(fr))) \o bits
                                                     \o SubSeq(fr, Min(16, Len(fr)) + 1, Len(fr))]
                      ELSE regs,
        app |-> [a EXCEPT
                   !.stored = IF branch \in {"save", "undo"}
                              THEN [@ EXCEPT ![branch] = a.n_clicks[branch]] ELSE @,
                   !.applied = IF branch = "save" THEN @ \cup {"update_flags"} ELSE @,
                   !.pc["update_flags"] = "idle"]]

\* a session with a fresh risc CPU whose page has been loaded: the counters
\* are zero and update_registers has rendered the registers into the table
InitApp ==
        /\ app = update_registers(
                    [n_clicks |-> [b \in {"save", "undo"} |-> 0],
                     stored |-> [b \in {"save", "undo"} |-> 0],
                     table |-> <<>>,
                     flags |-> << <<"0">>, <<"0">>, <<"0">>, <<"0">> >>,
                     pc |-> [cb \in {"update_registers", "update_flags"} |->
                               IF cb = "update_registers" THEN "else" ELSE "idle"],
                     applied |-> {}, last |-> "none"],
                    create_registers("risc")).app
        /\ asm = NoAsm
        /\ isa = "risc"
        /\ architecture = "neumann"
        /\ io_arch = "special"
        /\ registers = create_registers("risc")
        /\ program_memory = {}
        /\ data_memory = {}
        /\ instruction = <<>>
        /\ opcode = <<>>
        /\ long_registers = <<>>
        /\ long_register_result = <<>>
        /\ long_immediates = <<>>
        /\ long_immediate_result = <<>>
        /\ additional_jump = 0
        /\ instr_size_list = <<0>>
        /\ program_pointer = 0
        /\ first_instruction = TRUE
        /\ is_input_active = FALSE
        /\ input_attrs = [set |-> FALSE, input_result_destination |-> NoDest,
                          memory_write_access |-> FALSE, tos_push |-> FALSE]
        /\ shell = [out |-> <<>>, state |-> <<>>]
        /\ err = "none"
        /\ last_call = "init"
        /\ idle = "none"
        /\ exec = <<>>
        /\ steps = 0
        /\ inputs = 0
        /\ stack_ops = <<>>

\* the user edits a cell of the registers table (or none) and the flags row
\* and clicks one of the two buttons: both callbacks are triggered
Click ==
    /\ \A cb \in DOMAIN app.pc : app.pc[cb] = "idle"
    /\ app.n_clicks["save"] + app.n_clicks["undo"] < MaxClicks
    /\ \E button \in {"save", "undo"}, key \in {"R00", "FR"} :
       \E text \in { app.table[key], <<"1", "2">>, <<"1", "2", "3", "4">>,
                     <<"1", "2", "3", "4", "5">> },
          row \in { << <<"0">>, <<"0">>, <<"0">>, <<"0">> >>,
                    << <<"1">>, <<"0">>, <<"1">>, <<"1">> >>,
                    << <<"1", "0">>, <<"0">>, <<"0">>, <<"0">> >> } :
          app' = [app EXCEPT !.n_clicks[button] = @ + 1,
                             !.table[key] = text,
                             !.flags = row,
                             !.pc = [cb \in DOMAIN @ |-> "triggered"],
                             !.applied = {},
                             !.last = button]
    /\ last_call' = "click"
    /\ UNCHANGED <<cpuVars, err, idle, exec, steps, inputs, stack_ops, asm>>

\* the request of update_registers: its test, or the branch the test chose
UpdateRegisters ==
    /\ \/ /\ app.pc["update_registers"] = "triggered"
          /\ app' = [app EXCEPT !.pc["update_registers"] =
                        IF app.n_clicks["save"] > app.stored["save"] THEN "save"
                        ELSE IF app.n_clicks["undo"] > app.stored["undo"] THEN "undo"
                        ELSE "else"]
          /\ UNCHANGED registers
       \/ /\ app.pc["update_registers"] \in {"save", "undo", "else"}
          /\ \E r \in {update_registers(app, registers)} :
                app' = r.app /\ registers' = r.registers
    /\ last_call' = "update_registers"
    /\ UNCHANGED <<isa, architecture, io_arch, data_memory, program_memory,
                   instruction, opcode, long_registers, long_register_result,
                   long_immediates, long_immediate_result, additional_jump,
                   instr_size_list, program_pointer, first_instruction,
                   is_input_active, input_attrs, shell,
                   err, idle, exec, steps, inputs, stack_ops, asm>>

\* the request of update_flags: its test, or the branch the test chose
UpdateFlags ==
    /\ \/ /\ app.pc["update_flags"] = "triggered"
          /\ app' = [app EXCEPT !.pc["update_flags"] =
                        IF app.n_clicks["save"] > app.stored["save"] THEN "save"
                        ELSE IF app.n_clicks["undo"] > app.stored["undo"] THEN "undo"
                        ELSE "else"]
          /\ UNCHANGED registers
       \/ /\ app.pc["update_flags"] \in {"save", "undo", "else"}
          /\ \E r \in {update_flags(app, registers)} :
                app' = r.app /\ registers' = r.registers
    /\ last_call' = "update_flags"
    /\ UNCHANGED <<isa, architecture, io_arch, data_memory, program_memory,
                   instruction, opcode, long_registers, long_register_result,
                   long_immediates, long_immediate_result, additional_jump,
                   instr_size_list, program_pointer, first_instruction,
                   is_input_active, input_attrs, shell,
                   err, idle, exec, steps, inputs, stack_ops, asm>>

SpecApp == InitApp /\ [][Click \/ UpdateRegisters \/ UpdateFlags]_vars

(***************************************************************************)
(* Properties.                                                             *)
(***************************************************************************)

\* C1: halt is terminal.  Once the fetched instruction word is all zeros it
\* stays all zeros, and every call to step made from then on returns without
\* raising and leaves registers, memories, program_pointer, the fetched
\* instruction and the device unchanged.
C1_HaltIsTerminal ==
    [][AllZero(instruction) =>
          /\ AllZero(instruction')
          /\ (last_call' = "step" => (UNCHANGED cpuVars /\ err' = "none"))]_vars

\* a step was called on a halted CPU that had executed instructions before
C1_Witness == idle = "halt" /\ last_call = "step" /\ exec # <<>> /\ AllZero(instruction)

\* C2 (as claimed): an instruction whose opcode bits are all zero is halt,
\* whatever its other bits are, so a step on it executes nothing.
C2_ZeroOpcodeIsHalt ==
    [][(AllZero(opcode) /\ last_call' = "step") => (UNCHANGED cpuVars /\ err' = "none")]_vars

\* C3: while the CPU waits for input (is_input_active after an in), every call
\* to step is a no-op: nothing of the CPU changes and nothing is raised.
C3_StepWaitsForInput ==
    [][(is_input_active /\ last_call' = "step") => (UNCHANGED cpuVars /\ err' = "none")]_vars

\* step was called while an in instruction was waiting for its input
C3_Witness ==
    /\ idle = "input" /\ last_call = "step" /\ is_input_active
    /\ exec # <<>> /\ exec[Len(exec)].res_type = "in"


\* C4: when the CPU is suspended on in, input_finish(v) raises nothing, clears
\* is_input_active and writes v, left-padded with zeros to 16 bits, to exactly
\* the destination the in recorded: the register, or data memory at dest*8
\* followed by TOS <- dest+2 for the register stack; nothing else changes.
\* The step after it executes the instruction that follows the in: the word
\* of program memory right behind the in, at the next program_pointer.
C4_InputFinishResumes ==
    [][/\ (is_input_active /\ last_call' = "input_finish") =>
            /\ err' = "none"
            /\ ~is_input_active'
            /\ UNCHANGED <<instruction, opcode, program_pointer, shell, input_attrs,
                           instr_size_list, additional_jump, first_instruction>>
            /\ program_memory' = IF architecture = "harvard" THEN program_memory
                                 ELSE data_memory'
            /\ \E v \in InputValues :
                 LET w == Zeros(16 - Len(v)) \o v
                     d == input_attrs.input_result_destination
                 IN IF input_attrs.memory_write_access
                    THEN /\ d.kind = "memory"
                         /\ data_memory' = MemWrite(data_memory, d.addr * 8, w)
                         /\ registers' = IF input_attrs.tos_push
                                         THEN [registers EXCEPT !["TOS"] = Word(d.addr + 2)]
                                         ELSE registers
                    ELSE /\ d.kind = "register"
                         /\ registers' = [registers EXCEPT ![d.ref] = w]
                         /\ data_memory' = data_memory
       /\ (/\ last_call = "input_finish" /\ inputs = 1 /\ last_call' = "step"
           /\ exec # <<>> /\ exec[Len(exec)].res_type = "in"
           /\ ~AllZero(instruction)) =>
            LET in == exec[Len(exec)]
                isz == instruction_sizes[isa]
                next_ip == in.ip + (isz[1] \div isz[3]) + in.additional_jump
                c == exec'[Len(exec')]
            IN /\ idle' = "none"
               /\ exec' = Remember(exec, c)
               /\ c.pp = in.pp + 1
               /\ c.ip = next_ip
               /\ SubSeq(instruction, 1, isz[1])
                    = MemRead(program_memory, next_ip * isz[3], next_ip * isz[3] + isz[1])]_vars

\* on the stack ISA a short value was read by in, written by input_finish to the
\* register stack, and the instruction after the in has been executed
C4_Witness ==
    /\ isa = "stack" /\ err = "none" /\ last_call = "step" /\ idle = "none"
    /\ inputs = 1 /\ Len(exec) = 2 /\ exec[1].res_type = "in"
    /\ RegInt(State, "TOS") = tos_start + 2
    /\ MemRead(data_memory, tos_start * 8, tos_start * 8 + 16) = Word(65)

\* C5 (as claimed): input_finish with no input pending is reported as an error
\* and leaves the registers (TOS among them) and the data memory unchanged.
C5_UnbalancedInputRejected ==
    [][(~is_input_active /\ last_call' = "input_finish") =>
          (err' # "none" /\ registers' = registers /\ data_memory' = data_memory)]_vars

\* C6 (as claimed): every executed cycle whose instruction is not a call, a ret
\* or a taken jump moves IP by (instruction bits / byte bits) + additional_jump
\* of the executed instruction and program_pointer by exactly 1.
C6_SequentialAdvance ==
    [][(/\ last_call' = "step" /\ idle' = "none" /\ err' = "none"
        /\ exec' # <<>>
        /\ exec'[Len(exec')].res_type \notin {"call", "ret"}
        /\ ~(exec'[Len(exec')].res_type = "jmp" /\ ~exec'[Len(exec')].go)) =>
          /\ ToInt(registers'["IP"]) - ToInt(registers["IP"])
               = (instruction_sizes[isa][1] \div instruction_sizes[isa][3]) + additional_jump
          /\ program_pointer' = program_pointer + 1]_vars


\* C7: memory-stack round trip.  From every SP in 2..stack_start a push of a
\* 16-bit word w succeeds, leaves SP two lower and w in data memory at the new
\* SP; a pop that follows it at once succeeds, returns w and leaves SP equal
\* to its value before the push.
C7_MemoryStackRoundTrip ==
    \A i \in 1..Len(stack_ops) :
        (stack_ops[i].op = "push_stack" /\ stack_ops[i].before \in 2..stack_start) =>
            /\ stack_ops[i].ok /\ stack_ops[i].after = stack_ops[i].before - 2
            /\ (i = Len(stack_ops) =>
                  MemRead(data_memory, stack_ops[i].after * 8, stack_ops[i].after * 8 + 16) = stack_ops[i].word)
            /\ (i < Len(stack_ops) /\ stack_ops[i + 1].op = "pop_stack") =>
                  /\ stack_ops[i + 1].ok
                  /\ stack_ops[i + 1].word = stack_ops[i].word
                  /\ stack_ops[i + 1].after = stack_ops[i].before

\* a word with both kinds of bits was pushed over filled memory and popped again
C7_Witness ==
    /\ Len(stack_ops) = 2 /\ err = "none" /\ data_memory # {}
    /\ stack_ops[1].op = "push_stack" /\ stack_ops[1].word = Word(43690) /\ stack_ops[1].before = 600
    /\ stack_ops[2].op = "pop_stack" /\ RegInt(State, "SP") = 600

\* C8: register-stack round trip (stack ISA).  A push through a TOS destination
\* writes the 16 bits at TOS*8 and leaves TOS two higher; a popping read that
\* follows it at once returns the pushed word and leaves TOS equal to its value
\* before the push.
C8_RegisterStackRoundTrip ==
    \A i \in 1..Len(stack_ops) :
        (stack_ops[i].op = "push_tos" /\ stack_ops[i].before \in 0..(memory_size - 2)) =>
            /\ stack_ops[i].ok /\ stack_ops[i].after = stack_ops[i].before + 2
            /\ (i = Len(stack_ops) =>
                  MemRead(data_memory, stack_ops[i].before * 8, stack_ops[i].before * 8 + 16) = stack_ops[i].word)
            /\ (i < Len(stack_ops) /\ stack_ops[i + 1].op = "pop_tos") =>
                  /\ stack_ops[i + 1].ok
                  /\ stack_ops[i + 1].word = stack_ops[i].word
                  /\ stack_ops[i + 1].after = stack_ops[i].before

\* a word with both kinds of bits was pushed on the register stack over filled
\* memory and popped again
C8_Witness ==
    /\ Len(stack_ops) = 2 /\ err = "none" /\ data_memory # {} /\ isa = "stack"
    /\ stack_ops[1].op = "push_tos" /\ stack_ops[1].word = Word(43690) /\ stack_ops[1].before = tos_start
    /\ stack_ops[2].op = "pop_tos" /\ RegInt(State, "TOS") = tos_start


\* C9 (as claimed): for every call at instruction index p, with a positive or
\* a negative delta, that lands on a ret of the program, once the call and then
\* the ret have been executed nothing was raised, program_pointer is p + 1 and
\* IP is the byte address of instruction p + 1.
C9_CallThenRetReturns ==
    (/\ last_call = "step" /\ idle = "none" /\ Len(exec) = 2
     /\ exec[1].res_type = "call" /\ exec[2].res_type = "ret"
     /\ exec[1].pp \in 0..(Len(instr_size_list) - 2)
     /\ exec[2].pp \in 0..(Len(instr_size_list) - 2)
     /\ exec[1].ip = program_start + Sum(ListSlice(instr_size_list, 0, exec[1].pp))
     /\ exec[2].ip = program_start + Sum(ListSlice(instr_size_list, 0, exec[2].pp))) =>
        /\ err = "none"
        /\ program_pointer = exec[1].pp + 1
        /\ RegInt(State, "IP")
             = program_start + Sum(ListSlice(instr_size_list, 0, exec[1].pp + 1))

\* C10: a jump is taken exactly when its predicate holds on the low four bits
\* of FR read as (CF, ZF, OF, SF): jmp always, je iff ZF, jne iff not ZF, jg
\* iff SF = OF and not ZF, jge iff SF = OF, jl iff SF # OF, jle iff SF # OF or
\* ZF, jc iff its operand is the all-ones 16-bit word.  A jump that is not
\* taken raises nothing and moves IP by the instruction size plus
\* additional_jump and program_pointer by 1, like a non-jump instruction.
C10_JumpTakenIffPredicate ==
    [][(/\ last_call' = "step" /\ idle' = "none" /\ exec' # <<>>
        /\ exec'[Len(exec')].res_type = "jmp") =>
          LET c == exec'[Len(exec')]
              fr == ToInt(registers["FR"])
              ZF == (fr \div 4) % 2 = 1
              OF == (fr \div 2) % 2 = 1
              SF == fr % 2 = 1
              holds == CASE c.name = "jmp" -> TRUE
                         [] c.name = "je" -> ZF
                         [] c.name = "jne" -> ~ZF
                         [] c.name = "jg" -> (SF = OF) /\ ~ZF
                         [] c.name = "jge" -> SF = OF
                         [] c.name = "jl" -> SF # OF
                         [] c.name = "jle" -> (SF # OF) \/ ZF
                         [] c.name = "jc" -> c.operands_values[1] = Ones(16)
          IN /\ c.name \in {"jmp", "je", "jne", "jg", "jge", "jl", "jle", "jc"}
             /\ holds <=> ~c.go
             /\ ~holds =>
                  /\ err' = "none"
                  /\ ToInt(registers'["IP"]) - ToInt(registers["IP"])
                       = (instruction_sizes[isa][1] \div instruction_sizes[isa][3])
                           + additional_jump
                  /\ program_pointer' = program_pointer + 1]_vars

\* a jg was executed with ZF set and SF = OF, and fell through to the next instruction
C10_Witness ==
    /\ last_call = "step" /\ idle = "none" /\ err = "none" /\ exec # <<>>
    /\ exec[Len(exec)].name = "jg" /\ exec[Len(exec)].go
    /\ ToInt(exec[Len(exec)].registers["FR"]) = 4
    /\ program_pointer = exec[Len(exec)].pp + 1

\* C11: CISC enter n followed at once by leave.  When the enter was executed
\* without an error, the leave raises nothing and leaves SP and BP equal to
\* their values before the enter, and the two bytes of data memory at
\* [SP_pre - 2, SP_pre) hold the BP of before the enter.
C11_EnterLeaveRestores ==
    (/\ last_call = "step" /\ idle = "none" /\ Len(exec) = 2
     /\ exec[1].res_type = "enter" /\ exec[2].res_type = "leave"
     /\ exec[2].pp = exec[1].pp + 1) =>
        LET pre == exec[1].registers
        IN /\ err = "none"
           /\ registers["SP"] = pre["SP"]
           /\ registers["BP"] = pre["BP"]
           /\ MemRead(data_memory, (ToInt(pre["SP"]) - 2) * 8, ToInt(pre["SP"]) * 8) = pre["BP"]

\* a nested enter, with BP different from SP before it, was undone by its leave
C11_Witness ==
    /\ last_call = "step" /\ idle = "none" /\ err = "none" /\ Len(exec) = 2
    /\ exec[1].res_type = "enter" /\ exec[2].res_type = "leave"
    /\ exec[1].registers["SP"] = Word(1018) /\ exec[1].registers["BP"] = Word(1022)
    /\ registers["SP"] = Word(1018) /\ registers["BP"] = Word(1022)

\* C12: port I/O.  In special (port) mode every executed out raises nothing
\* and appends exactly one character to the output of the device bound to
\* its port, the character whose code is the low byte of the last operand of
\* the instruction, behind the characters of the earlier outs; and when an in
\* into a register was resumed by one input_finish(v) and an out of that
\* register follows it, the output is the one character of v.
C12_OutAppendsLastOperand ==
    [][/\ (/\ io_arch = "special" /\ last_call' = "step" /\ idle' = "none"
            /\ exec' # <<>> /\ exec'[Len(exec')].res_type = "out") =>
              LET c == exec'[Len(exec')]
              IN /\ err' = "none"
                 /\ c.operands_values # <<>>
                 /\ shell'.out = Append(shell.out,
                                        ToInt(c.operands_values[Len(c.operands_values)]) % 256)
       /\ (/\ io_arch = "special" /\ last_call = "input_finish" /\ inputs = 1
            /\ exec # <<>> /\ exec[Len(exec)].res_type = "in" /\ ~is_input_active
            /\ input_attrs.input_result_destination.kind = "register"
            /\ shell.out = <<>>
            /\ last_call' = "step" /\ idle' = "none"
            /\ exec'[Len(exec')].res_type = "out") =>
              \E v \in InputValues :
                  /\ registers[input_attrs.input_result_destination.ref] = Zeros(16 - Len(v)) \o v
                  /\ err' = "none"
                  /\ shell'.out = <<ToInt(v) % 256>>]_vars

\* on RISC the letter A was read by in, written to R00 by input_finish and
\* written to the device by the out that followed
C12_Witness ==
    /\ isa = "risc" /\ io_arch = "special" /\ err = "none" /\ inputs = 1
    /\ last_call = "step" /\ idle = "none" /\ Len(exec) = 2
    /\ exec[1].res_type = "in" /\ exec[2].res_type = "out"
    /\ shell.out = <<65>>

\* C13 (as claimed): with io = mmio an executed port out raises the simulator
\* error on every ISA and the output of the device stays as it was.
C13_PortOutRejectedInMmio ==
    [][(/\ io_arch = "mmio" /\ last_call' = "step" /\ idle' = "none"
        /\ exec' # <<>> /\ exec'[Len(exec')].res_type = "out") =>
          (err' = "SimulatorError" /\ shell'.out = shell.out)]_vars

\* C14 (as claimed): a pop of the memory stack with SP >= stack_start, and a
\* popping read of the register stack with TOS <= tos_start, is reported as
\* StackUnderflow and leaves the stack pointer where it was.
C14_StackUnderflowReported ==
    \A i \in 1..Len(stack_ops) :
        (\/ (stack_ops[i].op = "pop_stack" /\ stack_ops[i].before >= stack_start)
         \/ (stack_ops[i].op = "pop_tos" /\ stack_ops[i].before <= tos_start)) =>
            /\ ~stack_ops[i].ok
            /\ stack_ops[i].after = stack_ops[i].before
            /\ (i = Len(stack_ops) => err = "StackUnderflow")

\* C15: the state right after construction from a listing.  IP = 512,
\* program_pointer = 0, SP = BP = 1024 and TOS = 256 on the ISAs that have
\* them, is_input_active is false, and program memory holds the lines of the
\* listing one behind the other from bit 512 * byte-bits on, line k being
\* instr_size_list[k] bytes long, and nothing else.
C15_StateAfterConstruction ==
    last_call = "init" =>
        /\ RegInt(State, "IP") = 512
        /\ program_pointer = 0
        /\ \A r \in DOMAIN registers :
              /\ r \in {"SP", "BP"} => ToInt(registers[r]) = 1024
              /\ r = "TOS" => ToInt(registers[r]) = 256
        /\ ~is_input_active
        /\ first_instruction /\ instruction = <<>> /\ err = "none"
        /\ LET bb == instruction_sizes[isa][3]
               n == Len(instr_size_list) - 1
               at(k) == (512 + Sum(ListSlice(instr_size_list, 0, k - 1))) * bb
               lines == [k \in 1..n |-> MemRead(program_memory, at(k), at(k + 1))]
           IN /\ instr_size_list[n + 1] = 0
              /\ lines \in Listings[isa]
              /\ \A b \in program_memory : b \in at(1)..(at(n + 1) - 1)

\* a CPU of the stack ISA, whose byte has 6 bits, was constructed from a listing
\* of three instructions
C15_Witness ==
    /\ last_call = "init" /\ isa = "stack" /\ Len(instr_size_list) = 4
    /\ (512 * 6) \in program_memory /\ registers["TOS"] = Word(256)

\* C16: the two memories.  With architecture = harvard no step and no
\* input_finish changes program memory.  With neumann or harvardm program
\* memory and data memory are the same after every call, so every write to
\* data memory is in program memory as well.  In every architecture the
\* instruction fetched at the end of an executed cycle is the word program
\* memory holds at IP at that moment, whatever was written there before.
C16_HarvardSplitsNeumannShares ==
    [][/\ architecture = "harvard" => program_memory' = program_memory
       /\ architecture \in {"neumann", "harvardm"} => program_memory' = data_memory'
       /\ (last_call' = "step" /\ idle' = "none" /\ err' = "none") =>
             LET isz == instruction_sizes[isa]
                 at == ToInt(registers'["IP"]) * isz[3]
             IN SubSeq(instruction', 1, isz[1]) = MemRead(program_memory', at, at + isz[1])]_vars

\* with one memory, a push overwrote the two nops behind it with two rets and
\* the ret was fetched in place of the nop
C16_Witness ==
    /\ isa = "cisc" /\ architecture = "neumann" /\ err = "none"
    /\ last_call = "step" /\ idle = "none" /\ exec # <<>>
    /\ exec[Len(exec)].name = "push" /\ RegInt(State, "IP") = 522
    /\ instr_size_list = <<4, 4, 2, 1, 1, 0>>
    /\ SubSeq(instruction, 1, 8) = Field(34, 8)

\* C17: the memory-mapped device.  With io = mmio, after every step that
\* executed a cycle without an error the state of the shell equals what data
\* memory holds in the window [1004, 1024) bytes after the cycle, its
\* destination write included; a step that executes nothing (the first,
\* fetch-only step, a step on halt, a step while waiting for input) leaves the
\* device as it was.
C17_MmioRefreshAfterCycle ==
    [][(io_arch = "mmio" /\ last_call' = "step") =>
          IF idle' = "none"
          THEN err' = "none" => shell'.state = MemRead(data_memory', 1004 * 8, 1024 * 8)
          ELSE shell' = shell]_vars

\* a push wrote 5 into the last two bytes of the window and the device shows it
C17_Witness ==
    /\ io_arch = "mmio" /\ err = "none" /\ last_call = "step" /\ idle = "none"
    /\ exec # <<>> /\ exec[Len(exec)].res_type = "stackpush"
    /\ Len(shell.state) = 160
    /\ SubSeq(shell.state, 145, 160) = Word(5)

\* C18 (as claimed): the RISC listing [call $2; mov %R00, $9; halt;
\* mov %R00, $3; ret], run from a fresh CPU until it halts, raises nothing and
\* leaves R00 = 0x0009.
C18_CallRetProgramLeavesNine ==
    (/\ isa = "risc" /\ inputs = 0
     /\ program_memory = load_program("risc",
            << RiscW(9, Field(2, 10)), RiscW(3, Field(0, 3) \o Field(9, 7)), Zeros(16),
               RiscW(3, Field(0, 3) \o Field(3, 7)), RiscW(11, <<>>) >>)
     /\ (AllZero(instruction) \/ err # "none")) =>
        (err = "none" /\ registers["R00"] = Word(9))

\* C18 (amended): the RISC listing [call $3; mov %R00, $9; halt;
\* mov %R00, $3; ret], run from a fresh CPU until it halts, raises nothing and
\* leaves R00 = 0x0009: the call at index 0 lands on index 0 + 3, the ret
\* returns to index 1.
C18_CallThreeProgramLeavesNine ==
    (/\ isa = "risc" /\ inputs = 0
     /\ program_memory = load_program("risc",
            << RiscW(9, Field(3, 10)), RiscW(3, Field(0, 3) \o Field(9, 7)), Zeros(16),
               RiscW(3, Field(0, 3) \o Field(3, 7)), RiscW(11, <<>>) >>)
     /\ (AllZero(instruction) \/ err # "none")) =>
        (err = "none" /\ registers["R00"] = Word(9))

\* the listing with call $3 has halted, after the ret and the mov of 9
C18_Witness ==
    /\ isa = "risc" /\ inputs = 0 /\ err = "none" /\ AllZero(instruction)
    /\ (512 * 8 + 15) \in program_memory /\ instr_size_list = <<2, 2, 2, 2, 2, 0>>
    /\ Len(exec) = 2 /\ exec[1].res_type = "ret" /\ exec[2].name = "mov"
    /\ program_pointer = 2 /\ registers["R00"] = Word(9)

\* C19: commas.  translate raises an assembler error, and returns no listing,
\* for every text with a line in which an operand other than the last does
\* not end with ','.  For an accepted text, in every line each operand but
\* the last ends with ',' and the mnemonic has an encoding with as many
\* operand types as the line has operands, each of which validates the
\* operand with that comma taken off.
C19_MissingCommaRejected ==
    [][last_call' = "translate" =>
          \A line \in {Split(asm'.text, "\n")[l] : l \in 1..Len(Split(asm'.text, "\n"))} :
            \A words \in {Split(line, " ")} :
              \A commas \in {{k \in 2..(Len(words) - 1) :
                                 words[k] # <<>> /\ words[k][Len(words[k])] = ","}} :
                 /\ commas # 2..(Len(words) - 1) =>
                       (asm'.error = "AssemblerError" /\ asm'.binary_code = <<>>)
                 /\ asm'.error = "none" =>
                       /\ commas = 2..(Len(words) - 1)
                       /\ Str(words[1]) \in DOMAIN asm.instructions
                       /\ \E e \in 1..Len(asm.instructions[Str(words[1])]) :
                             /\ Len(asm.instructions[Str(words[1])][e].types) = Len(words) - 1
                             /\ \A k \in 2..Len(words) :
                                   valid_type(asm.isa,
                                              IF k < Len(words)
                                              THEN SubSeq(words[k], 1, Len(words[k]) - 1)
                                              ELSE words[k],
                                              asm.instructions[Str(words[1])][e].types[k - 1])]_vars

\* `add %R00 %R01`, whose operands are valid but for the missing comma, was rejected
C19_Witness ==
    /\ last_call = "translate" /\ asm.isa = "risc"
    /\ asm.text = <<"a", "d", "d", " ", "%", "R", "0", "0", " ", "%", "R", "0", "1">>
    /\ asm.error = "AssemblerError" /\ asm.binary_code = <<>>

\* C20: range of an immediate.  For a line whose last operand is an immN
\* written '$v', translate accepts the line exactly when
\* -2^(N-1) < v < 2^(N-1); the last N characters of the emitted line are then
\* the bits of v mod 2^N, most significant first.  With v = -2^(N-1) or
\* v = 2^(N-1) the line is rejected with an assembler error and no listing.
C20_ImmediateStrictRange ==
    [][last_call' = "translate" =>
          \A e \in ImmInstructions(asm.isa) : \A v \in ImmValues(e.N) :
             asm'.text = SourceLine(Append(e.words, <<"$">> \o Dec(v))) =>
                IF 0 - Pow2(e.N - 1) < v /\ v < Pow2(e.N - 1)
                THEN /\ asm'.error = "none"
                     /\ Len(asm'.binary_code) > e.N
                     /\ asm'.binary_code[Len(asm'.binary_code)] = "\n"
                     /\ \A k \in 1..e.N :
                           asm'.binary_code[Len(asm'.binary_code) - 1 - e.N + k]
                             = IF (((v + Pow2(e.N)) % Pow2(e.N)) \div Pow2(e.N - k)) % 2 = 1
                               THEN "1" ELSE "0"
                ELSE asm'.error = "AssemblerError" /\ asm'.binary_code = <<>>]_vars

\* `mov %R00, $-63`, the least value of an imm7, was assembled with the field 1000001
C20_Witness ==
    /\ last_call = "translate" /\ asm.isa = "risc"
    /\ asm.text = <<"m", "o", "v", " ", "%", "R", "0", "0", ",", " ", "$", "-", "6", "3">>
    /\ asm.error = "none"
    /\ asm.binary_code = <<"0", "0", "0", "0", "1", "1", "0", "0", "0",
                           "1", "0", "0", "0", "0", "0", "1", "\n">>

\* C21: round trip of an immediate.  For a line whose last operand is an immN
\* written '$v' with |v| < 2^(N-1), the last N characters of the emitted
\* line, read as an unsigned number and decoded as the CPU decodes the
\* operand of a jump or a call (twos_complement(int(bits, 2), N)), give v.
C21_ImmediateRoundTrip ==
    [][last_call' = "translate" =>
          \A e \in ImmInstructions(asm.isa) : \A v \in ImmValues(e.N) :
             (/\ asm'.text = SourceLine(Append(e.words, <<"$">> \o Dec(v)))
              /\ 0 - Pow2(e.N - 1) < v /\ v < Pow2(e.N - 1)) =>
                /\ Len(asm'.binary_code) > e.N
                /\ twos_complement(
                       ToInt([k \in 1..e.N |->
                                IF asm'.binary_code[Len(asm'.binary_code) - 1 - e.N + k] = "1"
                                THEN 1 ELSE 0]), e.N) = v]_vars

\* `jmp $-511`, the least value of an imm10, was assembled: its field 1000000001
\* is 513 unsigned and -511 decoded
C21_Witness ==
    /\ last_call = "translate" /\ asm.isa = "risc"
    /\ asm.text = <<"j", "m", "p", " ", "$", "-", "5", "1", "1">>
    /\ asm.error = "none"
    /\ SubSeq(asm.binary_code, 7, 16) = <<"1", "0", "0", "0", "0", "0", "0", "0", "0", "1">>
    /\ twos_complement(513, 10) = -511

\* C22: selection of the encoding.  For a one-line text with its commas in
\* place and a known mnemonic, call an encoding fitting when it has as many
\* operand types as the line has operands and each type validates its
\* operand.  With several encodings: if none is fitting the line fails with
\* the invalid-operand error; otherwise the line is accepted exactly when the
\* immediates of the first fitting encoding are in range, and the emitted
\* line then starts with the opcode of that encoding (its first five bits
\* for mov_low and mov_high).  With one encoding: if it is not fitting the
\* line fails with the invalid-operand error, otherwise the line is accepted
\* exactly when its immediates are in range and starts with its opcode.
C22_FirstFittingEncoding ==
    [][(last_call' = "translate" /\ \A k \in 1..Len(asm'.text) : asm'.text[k] # "\n") =>
          \A words \in {Split(asm'.text, " ")} :
            \A operands \in {[k \in 1..(Len(words) - 1) |->
                                 IF k < Len(words) - 1
                                 THEN SubSeq(words[k + 1], 1, Len(words[k + 1]) - 1)
                                 ELSE words[k + 1]]} :
              (/\ \A k \in 2..(Len(words) - 1) :
                      words[k] # <<>> /\ words[k][Len(words[k])] = ","
               /\ Str(words[1]) \in DOMAIN asm.instructions) =>
                 \A encs \in {asm.instructions[Str(words[1])]} :
                   \A fitting \in {{e \in 1..Len(encs) :
                                      /\ Len(encs[e].types) = Len(operands)
                                      /\ \A k \in 1..Len(operands) :
                                            valid_type(asm.isa, operands[k], encs[e].types[k])}} :
                     IF fitting = {}
                     THEN /\ asm'.error = "AssemblerError"
                          /\ asm'.message = "Provide valid operands for this instruction"
                          /\ asm'.binary_code = <<>>
                     ELSE \A e \in {CHOOSE f \in fitting : \A g \in fitting : f <= g} :
                            \A opc \in {IF Str(words[1]) \in {"mov_low", "mov_high"}
                                         THEN SubSeq(encs[e].opcode, 1, 5)
                                         ELSE encs[e].opcode} :
                              IF \A k \in 1..Len(operands) :
                                    encs[e].types[k] \in DOMAIN ImmLen =>
                                       /\ 0 - Pow2(ImmLen[encs[e].types[k]] - 1)
                                             < int(Tail(operands[k]))
                                       /\ int(Tail(operands[k]))
                                             < Pow2(ImmLen[encs[e].types[k]] - 1)
                              THEN /\ asm'.error = "none"
                                   /\ Len(asm'.binary_code) > Len(opc)
                                   /\ SubSeq(asm'.binary_code, 1, Len(opc)) = opc
                              ELSE /\ asm'.error = "AssemblerError"
                                   /\ asm'.binary_code = <<>>]_vars

\* `mov [%R00], %R01` was assembled with the third encoding of mov in risc
C22_Witness ==
    /\ last_call = "translate" /\ asm.isa = "risc"
    /\ asm.text = <<"m", "o", "v", " ", "[", "%", "R", "0", "0", "]", ",", " ",
                    "%", "R", "0", "1">>
    /\ asm.error = "none"
    /\ Len(asm.instructions["mov"]) = 4
    /\ asm.instructions["mov"][3].types = <<"memreg", "reg">>
    /\ SubSeq(asm.binary_code, 1, 6) = asm.instructions["mov"][3].opcode

\* C23: blank lines.  A text with a blank line (the empty text, or the empty
\* last piece after a trailing newline) whose other lines translate is
\* accepted, and its listing has one line for every line of the source, the
\* blank ones blank.
C23_BlankLineGivesBlankLine ==
    [][last_call' = "translate" =>
          \A lines \in {Split(asm'.text, "\n")} :
             (/\ \E l \in 1..Len(lines) : lines[l] = <<>>
              /\ \A l \in 1..Len(lines) :
                    lines[l] # <<>> => translate_line(asm, lines[l]).err = "none") =>
                /\ asm'.error = "none"
                /\ \A out \in {Split(asm'.binary_code, "\n")} :
                      /\ Len(out) = Len(lines) + 1
                      /\ \A l \in 1..Len(lines) : lines[l] = <<>> <=> out[l] = <<>>]_vars

\* C24: length of a line.  Every non-blank line of the listing of an accepted
\* text is as long as what the decoder reads for its opcode: the instruction
\* width and, in cisc, one byte when the style of the opcode has registers
\* and two bytes for each of its long immediates.
C24_LineLengthIsWhatDecoderReads ==
    [][(last_call' = "translate" /\ asm'.error = "none") =>
          \A out \in {Split(asm'.binary_code, "\n")} :
            \A l \in 1..Len(out) :
               out[l] # <<>> =>
                 \A style \in {IF asm.isa = "cisc" /\ Len(out[l]) >= 3
                                THEN cisc_styles[ToInt([k \in 1..3 |->
                                                          IF out[l][k] = "1" THEN 1 ELSE 0])]
                                ELSE <<0, 0>>} :
                    Len(out[l]) = instruction_sizes[asm.isa][1]
                                    + instruction_sizes[asm.isa][3]
                                        * ((IF style[1] > 0 THEN 1 ELSE 0) + 2 * style[2])]_vars

\* C25: assemble, then decode.  For an accepted one-line text, the first
\* opcode-width characters of the emitted line are a key of the opcode table
\* of the ISA, and the entry of that key has the mnemonic of the line; this
\* includes mov_low, emitted with a five-bit opcode followed by the register.
C25_OpcodeDecodesToMnemonic ==
    [][(/\ last_call' = "translate" /\ asm'.error = "none"
        /\ \A k \in 1..Len(asm'.text) : asm'.text[k] # "\n") =>
          \A key \in {ToInt([k \in 1..instruction_sizes[asm.isa][2] |->
                                IF asm'.binary_code[k] = "1" THEN 1 ELSE 0])} :
             /\ Len(asm'.binary_code) > instruction_sizes[asm.isa][2]
             /\ key \in DOMAIN instructions_json[asm.isa]
             /\ instructions_json[asm.isa][key].name = Str(Head(Split(asm'.text, " ")))]_vars

\* `mov_low %SP, $1` was assembled: 01100 101 00000001, whose first six bits
\* are the second opcode of mov_low
C25_Witness ==
    /\ last_call = "translate" /\ asm.isa = "risc"
    /\ asm.text = <<"m", "o", "v", "_", "l", "o", "w", " ", "%", "S", "P", ",", " ", "$", "1">>
    /\ asm.error = "none"
    /\ asm.binary_code = <<"0", "1", "1", "0", "0", "1", "0", "1",
                           "0", "0", "0", "0", "0", "0", "0", "1", "\n">>
    /\ instructions_json["risc"][25].name = "mov_low"

\* C26: all or nothing.  When some line of the text does not translate
\* (unknown mnemonic, invalid operand, immediate out of range, missing
\* comma), the call ends in an assembler error with one of the four messages
\* of the assembler, no listing is returned, not even the lines before the
\* bad one, and the output file is not written.  A text is accepted, and its
\* listing written, only when every line translates.
C26_AllOrNothing ==
    [][last_call' = "translate" =>
          \A lines \in {Split(asm'.text, "\n")} :
             IF \E l \in 1..Len(lines) : translate_line(asm, lines[l]).err # "none"
             THEN /\ asm'.error = "AssemblerError"
                  /\ asm'.message \in {"Not valid opcode",
                                        "Provide valid operands for this instruction",
                                        "Provide valid operands for this instruction (commas included)",
                                        "Immediate constant provided too big"}
                  /\ asm'.binary_code = <<>>
                  /\ ~asm'.written
             ELSE /\ asm'.error = "none" /\ asm'.written
                  /\ Len(Split(asm'.binary_code, "\n")) = Len(lines) + 1]_vars

\* `nop` followed by the unknown `foo`: the error of the second line, and no
\* line of the listing
C26_Witness ==
    /\ last_call = "translate"
    /\ asm.text = <<"n", "o", "p", "\n", "f", "o", "o">>
    /\ asm.error = "AssemblerError" /\ asm.message = "Not valid opcode"
    /\ asm.binary_code = <<>> /\ ~asm.written

\* C27: a step is at most one instruction.  The first call after construction
\* executes nothing: registers, data memory, device and program_pointer keep
\* their values, no cycle is recorded, and the instruction register receives
\* the word of program memory at IP.  A later call on a CPU that is neither
\* halted nor waiting for input records exactly one cycle, that of the
\* instruction the previous call left in the instruction register, started at
\* the IP and program_pointer of before the call; if it raises nothing, the
\* instruction register then holds the word of program memory at the new IP.
\* A call on a halted or waiting CPU records no cycle.
C27_StepIsAtMostOneInstruction ==
    [][last_call' = "step" =>
          /\ idle' = "first" =>
                /\ err' = "none" /\ exec' = exec
                /\ registers' = registers /\ data_memory' = data_memory
                /\ shell' = shell /\ program_pointer' = program_pointer
                /\ ~first_instruction'
                /\ instruction' = MemRead(program_memory,
                                          ToInt(registers["IP"]) * instruction_sizes[isa][3],
                                          ToInt(registers["IP"]) * instruction_sizes[isa][3]
                                            + instruction_sizes[isa][1])
          /\ idle' \in {"halt", "input"} => exec' = exec
          /\ idle' = "none" =>
                /\ exec' # <<>>
                /\ exec' = Remember(exec, exec'[Len(exec')])
                /\ exec'[Len(exec')].pp = program_pointer
                /\ exec'[Len(exec')].ip = ToInt(registers["IP"])
                /\ ToInt(opcode) \in DOMAIN instructions_json[isa] =>
                      exec'[Len(exec')].name = instructions_json[isa][ToInt(opcode)].name
                /\ err' = "none" =>
                      /\ opcode' = SubSeq(instruction', 1, instruction_sizes[isa][2])
                      /\ instruction'
                           = MemRead(program_memory',
                                     ToInt(registers'["IP"]) * instruction_sizes[isa][3],
                                     ToInt(registers'["IP"]) * instruction_sizes[isa][3]
                                       + instruction_sizes[isa][1])]_vars

\* the third call of step has executed the second instruction of the listing
C27_Witness ==
    /\ last_call = "step" /\ steps = 3 /\ inputs = 0 /\ idle = "none" /\ err = "none"
    /\ Len(exec) = 2 /\ exec[1].pp = 0 /\ exec[2].pp = 1 /\ program_pointer = 2

\* C28: jumps and calls.  Let D be the signed value of the target operand of
\* an executed call or taken jump (the long immediate of a stack or
\* accumulator instruction with an immediate target, the operand otherwise),
\* with the target inside the listing.  If the cycle raises nothing,
\* program_pointer has moved by D and IP by the sizes of the instructions
\* from the current one up to the target (D >= 0) or minus the sizes from the
\* target up to the current one (D < 0); a call and a jump do the same.
C28_JumpAndCallMoveByDelta ==
    [][(/\ last_call' = "step" /\ idle' = "none" /\ err' = "none"
        /\ exec' # <<>>
        /\ \/ exec'[Len(exec')].res_type = "call"
           \/ exec'[Len(exec')].res_type = "jmp" /\ ~exec'[Len(exec')].go) =>
          \A bits \in {IF isa \in {"stack", "accumulator"}
                           /\ instructions_json[isa][ToInt(opcode)].list
                                 [Len(instructions_json[isa][ToInt(opcode)].list)] = "imm"
                        THEN long_immediate_result
                        ELSE exec'[Len(exec')].operands_values
                               [Len(exec'[Len(exec')].operands_values)]} :
            \A D \in {ToInt(bits) - (IF bits[1] = 1 THEN Pow2(Len(bits)) ELSE 0)} :
               (0 <= program_pointer + D /\ program_pointer + D <= Len(instr_size_list)) =>
                  /\ program_pointer' = program_pointer + D
                  /\ ToInt(registers'["IP"]) - ToInt(registers["IP"])
                       = IF D >= 0
                         THEN Sum(SubSeq(instr_size_list, program_pointer + 1,
                                         program_pointer + D))
                         ELSE 0 - Sum(SubSeq(instr_size_list, program_pointer + D + 1,
                                             program_pointer))]_vars

\* C29: ret.  Let r be the saved return point of an executed ret (LR in
\* risc, the word on top of the memory stack otherwise), with r and the
\* current program_pointer inside the listing.
\* If the cycle raises nothing, program_pointer is r and IP has moved to the
\* address of instruction r: back by the sizes of the instructions from r up
\* to the current one when r is not after it, forward by the sizes from the
\* current one up to r when r is after it.
C29_RetGoesToReturnPoint ==
    [][(/\ last_call' = "step" /\ idle' = "none" /\ err' = "none"
        /\ exec' # <<>> /\ exec'[Len(exec')].res_type = "ret") =>
          \A r \in {IF isa = "risc" THEN ToInt(registers["LR"])
                     ELSE ToInt(MemRead(data_memory, ToInt(registers["SP"]) * 8,
                                        ToInt(registers["SP"]) * 8 + 16))} :
             (r <= Len(instr_size_list) /\ program_pointer <= Len(instr_size_list)) =>
                /\ program_pointer' = r
                /\ ToInt(registers'["IP"]) - ToInt(registers["IP"])
                     = IF r <= program_pointer
                       THEN 0 - Sum(SubSeq(instr_size_list, r + 1, program_pointer))
                       ELSE Sum(SubSeq(instr_size_list, program_pointer + 1, r))]_vars

\* C30: the return point of a call.  An executed call that raises nothing
\* records program_pointer + 1: in risc LR holds it afterwards and SP and the
\* data memory are as before; in every other ISA SP is lower by 2 and the
\* 16-bit word of data memory at the new SP is program_pointer + 1.  An
\* executed ret that raises nothing in an ISA other than risc raises SP by 2
\* and goes to the word that was on top of the memory stack.
C30_CallRecordsReturnPoint ==
    [][(/\ last_call' = "step" /\ idle' = "none" /\ err' = "none" /\ exec' # <<>>) =>
          /\ (exec'[Len(exec')].res_type = "call" /\ isa = "risc") =>
                /\ ToInt(registers'["LR"]) = program_pointer + 1
                /\ registers'["SP"] = registers["SP"]
                /\ data_memory' = data_memory
          /\ (exec'[Len(exec')].res_type = "call" /\ isa # "risc") =>
                /\ ToInt(registers'["SP"]) = ToInt(registers["SP"]) - 2
                /\ ToInt(MemRead(data_memory', ToInt(registers'["SP"]) * 8,
                                 ToInt(registers'["SP"]) * 8 + 16)) = program_pointer + 1
          /\ (exec'[Len(exec')].res_type = "ret" /\ isa # "risc") =>
                /\ ToInt(registers'["SP"]) = ToInt(registers["SP"]) + 2
                /\ program_pointer' = ToInt(MemRead(data_memory, ToInt(registers["SP"]) * 8,
                                                    ToInt(registers["SP"]) * 8 + 16))]_vars

\* outside risc a call has pushed its return point and the ret executed right
\* after it has popped it: SP is back and the program is at the return point
C30_Witness ==
    /\ isa # "risc" /\ err = "none" /\ last_call = "step" /\ Len(exec) = 2
    /\ exec[1].res_type = "call" /\ exec[2].res_type = "ret"
    /\ program_pointer = exec[1].pp + 1
    /\ ToInt(registers["SP"]) = ToInt(exec[1].registers["SP"])

\* C31: CISC decode.  After a step that fetched an instruction and raised
\* nothing, with (reg_count, imm_count) the entry of the style table for the
\* first three bits of the opcode: additional_jump is (1 if reg_count >= 1,
\* else 0) + 2 * imm_count, and the long immediates are popped in the order
\* in which their words follow the opcode (and the register pack) in memory.
\* An executed instruction with two register operands in one pack byte got
\* the value of the register coded in bits [0:3] of the pack as its first
\* operand and that of bits [3:6] as its second; when it stores a result, it
\* stores it in the first register and leaves the second as it was.
C31_CiscDecode ==
    [][(isa = "cisc" /\ last_call' = "step" /\ err' = "none" /\ idle' \in {"first", "none"}) =>
          /\ \A cnt \in {cisc_styles[ToInt(BitSlice(opcode', 0, 3))]} :
             \A loc \in {ToInt(registers'["IP"]) * 8 + 8 + (IF cnt[1] >= 1 THEN 8 ELSE 0)} :
                /\ additional_jump' = (IF cnt[1] >= 1 THEN 1 ELSE 0) + 2 * cnt[2]
                /\ Len(long_immediates') = cnt[2]
                /\ \A k \in 1..cnt[2] :
                      long_immediates'[cnt[2] + 1 - k]
                        = MemRead(program_memory', loc + 16 * (k - 1), loc + 16 * k)
          /\ (/\ idle' = "none"
              /\ instructions_json["cisc"][ToInt(opcode)].list = <<"reg", "reg">>) =>
                \A pack \in {MemRead(program_memory, ToInt(registers["IP"]) * 8 + 8,
                                      ToInt(registers["IP"]) * 8 + 16)} :
                \A first \in {CodeReg(State, BitSlice(pack, 0, 3))} :
                \A second \in {CodeReg(State, BitSlice(pack, 3, 6))} :
                   /\ exec'[Len(exec')].operands_values = <<registers[first], registers[second]>>
                   /\ (/\ instructions_json["cisc"][ToInt(opcode)].res_type = "firstop"
                       /\ first \notin {"IP", "FR"}) =>
                          registers'[first]
                            = alu(exec'[Len(exec')].name, <<registers[first], registers[second]>>,
                                  registers["FR"]).val
                   /\ (second # first /\ second \notin {"IP", "FR"}) =>
                          registers'[second] = registers[second]]_vars

\* sub %R00, %R01 with R00 = 5 and R01 = 3 has left 2 in R00, and the word of
\* style 110 that follows it has been fetched: five more bytes, two immediates
C31_Witness ==
    /\ isa = "cisc" /\ err = "none" /\ last_call = "step" /\ exec # <<>>
    /\ exec[Len(exec)].name = "sub"
    /\ exec[Len(exec)].operands_values = <<Word(5), Word(3)>>
    /\ registers["R00"] = Word(2) /\ registers["R01"] = Word(3)
    /\ additional_jump = 5 /\ long_immediates = <<Word(9), Word(7)>>

\* C32: sign extension of a long immediate.  After a step that fetched an
\* instruction with a long immediate and raised nothing, the first long
\* immediate is 16 bits wide and its value as a 16-bit two's-complement
\* number is the value of the two-byte word that follows the opcode (and the
\* register pack of cisc) in program memory, read as a two's-complement
\* number of its own width: 12 bits in the stack ISA, 16 bits otherwise.
C32_SignExtensionKeepsValue ==
    [][(/\ last_call' = "step" /\ err' = "none" /\ idle' \in {"first", "none"}
        /\ isa # "risc" /\ long_immediates' # <<>>) =>
          \A bb \in {instruction_sizes[isa][3]} :
          \A loc \in {ToInt(registers'["IP"]) * bb + instruction_sizes[isa][1]
                        + (IF isa = "cisc" /\ long_registers' # <<>> THEN bb ELSE 0)} :
          \A word \in {MemRead(program_memory', loc, loc + 2 * bb)} :
             /\ Len(word) = IF isa = "stack" THEN 12 ELSE 16
             /\ Len(long_immediate_result') = 16
             /\ long_immediate_result' = long_immediates'[Len(long_immediates')]
             /\ twos_complement(ToInt(long_immediate_result'), 16)
                  = twos_complement(ToInt(word), Len(word))]_vars

\* the stack ISA has fetched an instruction whose 12-bit immediate is -1 and
\* holds it as sixteen ones
C32_Witness ==
    /\ isa = "stack" /\ err = "none" /\ last_call = "step"
    /\ long_immediates = <<Ones(16)>>
    /\ MemRead(program_memory, ToInt(registers["IP"]) * 6 + 6,
               ToInt(registers["IP"]) * 6 + 18) = Ones(12)

\* C33: swap of the stack ISA.  An executed swap that raises nothing, with at
\* least two words on the register stack (TOS at least tos_start + 4), leaves
\* the former second-from-top word immediately below the new TOS and the
\* former top word below that, and changes no bit of data memory outside the
\* four bytes from the old TOS on.
C33_SwapLeavesWordsBelowTos ==
    [][(/\ isa = "stack" /\ last_call' = "step" /\ idle' = "none" /\ err' = "none"
        /\ exec' # <<>> /\ exec'[Len(exec')].name = "swap"
        /\ ToInt(registers["TOS"]) >= tos_start + 4) =>
          \A T \in {ToInt(registers["TOS"])} : \A N \in {ToInt(registers'["TOS"])} :
             /\ MemRead(data_memory', (N - 2) * 8, N * 8)
                  = MemRead(data_memory, (T - 4) * 8, (T - 2) * 8)
             /\ MemRead(data_memory', (N - 4) * 8, (N - 2) * 8)
                  = MemRead(data_memory, (T - 2) * 8, T * 8)
             /\ data_memory' \ ((T * 8)..(T * 8 + 31)) = data_memory \ ((T * 8)..(T * 8 + 31))]_vars

\* after mov $5; mov $3; swap the word below TOS is 5 and the one below it 3
C33_Witness ==
    /\ isa = "stack" /\ err = "none" /\ last_call = "step" /\ exec # <<>>
    /\ exec[Len(exec)].name = "swap"
    /\ exec[Len(exec)].operands_values = <<Word(3), Word(5)>>
    /\ MemRead(data_memory, (ToInt(registers["TOS"]) - 2) * 8, ToInt(registers["TOS"]) * 8) = Word(5)
    /\ MemRead(data_memory, (ToInt(registers["TOS"]) - 4) * 8, (ToInt(registers["TOS"]) - 2) * 8) = Word(3)

\* C34: BP is changed only by enter and leave.  An executed instruction that
\* raises nothing and is neither enter nor leave leaves BP as it was.
C34_OnlyEnterLeaveChangeBP ==
    [][(/\ last_call' = "step" /\ idle' = "none" /\ err' = "none" /\ exec' # <<>>
        /\ "BP" \in DOMAIN registers
        /\ exec'[Len(exec')].res_type \notin {"enter", "leave"}) =>
          registers'["BP"] = registers["BP"]]_vars

\* C35: manual edits keep the widths.  After a callback of SAVE MANUAL
\* CHANGES has run, whatever hex text was typed into the registers table and
\* whatever was typed into the flags table, the state of every register of
\* the CPU is exactly 16 bits wide.
C35_ManualEditsKeepWidth ==
    (last_call \in {"update_registers", "update_flags"}) =>
        \A r \in DOMAIN registers : Len(registers[r]) = 16

\* C39: one click on SAVE MANUAL CHANGES applies both edits.  When both
\* callbacks triggered by a click on the button have returned, in whichever
\* order they ran, update_registers has written the registers row and
\* update_flags has written the flag bits.
C39_OneClickAppliesBoth ==
    (/\ last_call \in {"update_registers", "update_flags"}
     /\ app.last = "save"
     /\ \A cb \in DOMAIN app.pc : app.pc[cb] = "idle") =>
        app.applied = {"update_registers", "update_flags"}

\* C36: IP and program_pointer designate the same instruction.  After any
\* sequence of step and input_finish calls that raised nothing, IP minus
\* program_start is the sum of the loaded sizes of the instructions before
\* program_pointer (no instruction when program_pointer is not positive, all
\* of them when it is past the last).
C36_IpMatchesProgramPointer ==
    (last_call \in {"step", "input_finish"} /\ err = "none") =>
        ToInt(registers["IP"]) - program_start
          = Sum(SubSeq(instr_size_list, 1,
                       Min(Max(program_pointer, 0), Len(instr_size_list))))

\* C37: nested calls return in LIFO order.  On every ISA, in a listing where
\* call A is followed by call B inside A and then by the two rets, with the
\* subroutines after their callers (k = 1) or before them (k = 2), once the
\* four instructions have been executed nothing was raised and execution is
\* at the instruction that follows call A: program_pointer is its index and
\* IP its address.
C37_NestedCallsReturnLifo ==
    \A k \in 1..2 :
       (/\ last_call = "step" /\ inputs = 0 /\ steps = 4 + k
        /\ instr_size_list = size_list(isa, NestedCalls(isa)[k])
        /\ MemRead(program_memory, program_start * instruction_sizes[isa][3],
                   program_start * instruction_sizes[isa][3]
                     + Len(Concat(NestedCalls(isa)[k]))) = Concat(NestedCalls(isa)[k])) =>
          /\ err = "none"
          /\ program_pointer = (IF k = 1 THEN 1 ELSE 5)
          /\ ToInt(registers["IP"])
               = program_start + Sum(SubSeq(instr_size_list, 1, IF k = 1 THEN 1 ELSE 5))

\* C38: with memory-mapped devices a push on the memory stack leaves the window
\* of the shell alone.  An executed stackpush, enter or non-risc call that
\* starts with SP = stack_start and raises nothing leaves bytes 1004..1023 of
\* data memory as they were, and the state of the shell after the cycle is
\* those bytes.
C38_PushLeavesShellWindow ==
    [][(/\ last_call' = "step" /\ idle' = "none" /\ err' = "none" /\ exec' # <<>>
        /\ io_arch = "mmio"
        /\ "SP" \in DOMAIN registers
        /\ ToInt(registers["SP"]) = stack_start
        /\ \/ exec'[Len(exec')].res_type \in {"stackpush", "enter"}
           \/ exec'[Len(exec')].res_type = "call" /\ isa # "risc") =>
          /\ MemRead(data_memory', shell_start * 8, shell_end * 8)
               = MemRead(data_memory, shell_start * 8, shell_end * 8)
          /\ shell'.state = MemRead(data_memory, shell_start * 8, shell_end * 8)]_vars

\* C40: translate does not depend on what the assembler translated before.
\* After every translate the listing, the exception and its message are those
\* that an assembler with the encodings as loaded gives for the same text,
\* and a stored opcode of mov_low or mov_high has six bits or, once used,
\* five: it is not cut a second time.
C40_TranslateHistoryIndependent ==
    (last_call = "translate") =>
        /\ \A fresh \in {translate([asm EXCEPT !.instructions = asm_instructions(asm.isa)],
                                   asm.text)} :
              /\ asm.binary_code = fresh.binary_code
              /\ asm.error = fresh.error
              /\ asm.message = fresh.message
        /\ \A name \in {"mov_low", "mov_high"} \cap DOMAIN asm.instructions :
              \A k \in 1..Len(asm.instructions[name]) :
                 Len(asm.instructions[name][k].opcode) \in {5, 6}

\* `mov_low %SP, $1` was assembled to 01100 101 00000001 by an assembler whose
\* two encodings of mov_low were both cut already: the second one is only
\* reached by a mov_low line that was refused, so this is a repeated mov_low
C40_Witness ==
    /\ last_call = "translate" /\ asm.isa = "risc" /\ asm.error = "none"
    /\ asm.text = <<"m", "o", "v", "_", "l", "o", "w", " ", "%", "S", "P", ",", " ", "$", "1">>
    /\ asm.binary_code = <<"0", "1", "1", "0", "0", "1", "0", "1",
                           "0", "0", "0", "0", "0", "0", "0", "1", "\n">>
    /\ Len(asm.instructions["mov_low"]) = 2
    /\ Len(asm.instructions["mov_low"][1].opcode) = 5
    /\ Len(asm.instructions["mov_low"][2].opcode) = 5

====
